---- MODULE Spec2Model ----
(***************************************************************************)
(* A model of the combat turn/state engine of NeverEndingQuest             *)
(* (core/managers/combat_service.py, class CombatService): the encounter   *)
(* document held in memory and in the document store, the turn pointer,    *)
(* the validate-and-retry loop around the oracle, the action applier and   *)
(* the combat-end predicate.                                               *)
(***************************************************************************)
EXTENDS Integers, Sequences, FiniteSets, TLC

VARIABLES
    encounter_data,          \* self.encounter_data: the in-memory encounter document (NoDoc for None)
    store,                   \* modules/encounters/encounter_<id>.json in the document store
    current_turn_character,  \* self.current_turn_character (None or a name)
    is_active,               \* self.is_active
    conversation_history,    \* self.conversation_history: the role/kind of every transcript entry
    party_tracker_data,      \* worldConditions.activeCombatEncounter / lastCompletedEncounter
    pc,                      \* position of the one thread of control inside the session's API
    call,                    \* bookkeeping of the API call in flight
    last,                    \* what the last finished API call returned
    turns,                   \* number of turn requests sent to the validator so far
    request,                 \* the validator's latest run (_get_ai_response_with_validation)
    ext_writes,              \* number of writes to the persisted document made from outside
    visited,                 \* names that _advance_turn made current, in order (driver of the advance checks)
    archive,                 \* the collaborators _end_combat invoked, in order, with is_active at that time
    GAME_STATE,              \* server.py GAME_STATE: the keys the lobby and the combat handlers use
    PLAYERS_SID_MAP,         \* server.py PLAYERS_SID_MAP: connection id -> player name (None: no entry)
    threads                  \* event handlers and background tasks of the server in flight

vars == <<encounter_data, store, current_turn_character, is_active, conversation_history,
          party_tracker_data, pc, call, last, turns, request, ext_writes,
          visited, archive, GAME_STATE, PLAYERS_SID_MAP, threads>>

server == <<GAME_STATE, PLAYERS_SID_MAP, threads>>

(***************************************************************************)
(* Bounds of the model.                                                    *)
(***************************************************************************)
MaxListLen == 3
MaxCreatures == 3
MaxRound == 3
MaxTurns == 2
MaxExternalWrites == 1
MaxBatch == 2
MaxTasks == 2
MaxActions == 2

(***************************************************************************)
(* Program constants.                                                      *)
(***************************************************************************)
max_retries == 5

None == "None"
NoDoc == [none |-> TRUE]

(***************************************************************************)
(* Optional dictionary fields: <<>> is a missing key, <<v>> a present one. *)
(* Get(o, d) is Python's dict.get(key, d).                                 *)
(***************************************************************************)
Get(o, d) == IF o = <<>> THEN d ELSE o[1]

(***************************************************************************)
(* str.lower() on the status strings of the model.                         *)
(***************************************************************************)
Lower(s) ==
    CASE s = "Dead" -> "dead"
      [] s = "DEAD" -> "dead"
      [] s = "Alive" -> "alive"
      [] OTHER -> s

\* the comparison without .lower()
IsDeadExact(c) == Get(c.status, "alive") = "dead"
\* c.get("status", "alive").lower() == "dead"
IsDead(c) == Lower(Get(c.status, "alive")) = "dead"

\* Python's string order on the names of the model (all start with a capital letter).
NameRank(n) ==
    CASE n = "Alice" -> 1
      [] n = "Bob" -> 2
      [] n = "Goblin" -> 3
      [] n = "Hero" -> 4
      [] n = "Mira" -> 5
      [] OTHER -> 0

Range(s) == {s[i] : i \in 1..Len(s)}

RECURSIVE SelectSeqOf(_, _)
\* [c for c in creatures if c in S], list order kept
SelectSeqOf(s, S) ==
    IF s = <<>> THEN <<>>
    ELSE IF s[1] \in S THEN <<s[1]>> \o SelectSeqOf(Tail(s), S)
    ELSE SelectSeqOf(Tail(s), S)

\* the sort key (-initiative, name): a strictly before b
KeyBefore(a, b) ==
    \/ a.initiative > b.initiative
    \/ a.initiative = b.initiative /\ NameRank(a.name) < NameRank(b.name)

RECURSIVE InsertSorted(_, _)
\* stable insertion: x goes behind every element that is not after it
InsertSorted(x, s) ==
    IF s = <<>> THEN <<x>>
    ELSE IF KeyBefore(x, s[1]) THEN <<x>> \o s
    ELSE <<s[1]>> \o InsertSorted(x, Tail(s))

RECURSIVE SortedByInitiative(_)
\* sorted(creatures, key=lambda x: (-x.get("initiative", 0), x.get("name", "")))
SortedByInitiative(s) ==
    IF s = <<>> THEN <<>>
    ELSE InsertSorted(s[Len(s)], SortedByInitiative(SubSeq(s, 1, Len(s) - 1)))

\* alive_creatures of _advance_turn, sorted
AliveSorted(creatures) ==
    SortedByInitiative(SelectSeqOf(creatures, {c \in Range(creatures) : ~IsDead(c)}))

\* the first index of a creature named n in s, 0 when there is none (current_index = -1)
IndexOfName(s, n) ==
    IF \E i \in 1..Len(s) : s[i].name = n
    THEN CHOOSE i \in 1..Len(s) : s[i].name = n /\ \A j \in 1..(i - 1) : s[j].name # n
    ELSE 0

\* encounter_data.get('combat_round', encounter_data.get('current_round', 1))
RoundOf(doc) == Get(doc.combat_round, Get(doc.current_round, 1))

\* the end check comparing the status without .lower()
CheckEndedCaseSensitive(creatures) ==
    LET players == {c \in Range(creatures) : c.type = "player"}
        enemies == {c \in Range(creatures) : c.type \in {"enemy", "npc"}}
    IN \/ creatures = <<>>
       \/ players # {} /\ \A c \in players : IsDeadExact(c)
       \/ enemies # {} /\ \A c \in enemies : IsDeadExact(c)

\* the end check without its test of the players
CheckEndedIgnoresPlayers(creatures) ==
    LET enemies == {c \in Range(creatures) : c.type \in {"enemy", "npc"}}
    IN IF creatures = <<>> THEN TRUE
       ELSE IF enemies # {} /\ \A c \in enemies : IsDead(c) THEN TRUE
       ELSE FALSE

(***************************************************************************)
(* CombatService._check_combat_ended                                       *)
(***************************************************************************)
check_combat_ended(creatures) ==
    LET players == {c \in Range(creatures) : c.type = "player"}
        enemies == {c \in Range(creatures) : c.type \in {"enemy", "npc"}}
    IN IF creatures = <<>> THEN TRUE
       ELSE IF players # {} /\ \A c \in players : IsDead(c) THEN TRUE
       ELSE IF enemies # {} /\ \A c \in enemies : IsDead(c) THEN TRUE
       ELSE FALSE

(***************************************************************************)
(* Documents.                                                              *)
(***************************************************************************)
(***************************************************************************)
(* server.py: the global state of the multiplayer server.  A connection id *)
(* (sid) is a string; PLAYERS_SID_MAP holds None where the dictionary has   *)
(* no entry.  active_combat is None or the CombatService the variables of   *)
(* the session describe.                                                    *)
(***************************************************************************)
MAX_PLAYERS == 4

Sids == {"s1", "s2", "s3", "s4", "s5"}

PlayerNames == {"Alice", "Bob"}

\* f'Player_{sid[:8]}', the name of an event that carries no player_name
DefaultName(sid) == [s1 |-> "Player_s1", s2 |-> "Player_s2", s3 |-> "Player_s3",
                     s4 |-> "Player_s4", s5 |-> "Player_s5"][sid]

CombatServiceObject == "CombatService"

InitialGameState ==
    [active_combat |-> None, is_in_combat |-> FALSE, conversation_history |-> <<>>,
     connected_players |-> {}, game_active |-> FALSE, current_turn_player |-> None,
     turn_order |-> <<>>]

ServerIdle ==
    /\ GAME_STATE = InitialGameState
    /\ PLAYERS_SID_MAP = [sid \in Sids |-> None]
    /\ threads = {}

Creature(n, t, i, st) == [name |-> n, type |-> t, initiative |-> i, status |-> st]

Doc(cs, cr, cur, cache) ==
    [creatures |-> cs, combat_round |-> cr, current_round |-> cur, preroll_cache |-> cache]

Types == {"player", "enemy", "npc"}
StatusFields == {<<>>, <<"alive">>, <<"dead">>, <<"Dead">>}

RECURSIVE SeqsUpTo(_, _)
\* every sequence over S of length at most n
SeqsUpTo(S, n) ==
    IF n = 0 THEN {<<>>}
    ELSE LET shorter == SeqsUpTo(S, n - 1)
         IN shorter \cup {Append(s, x) : s \in {t \in shorter : Len(t) = n - 1}, x \in S}

NoCall == [op |-> "none"]
NoResult == [op |-> "none"]
NoRequest == [status |-> "none"]

(***************************************************************************)
(* SpecEnded: _check_combat_ended applied to every creature list of up to  *)
(* MaxListLen creatures of any type and status.                            *)
(***************************************************************************)
EndedCreatures == {Creature("Goblin", t, 10, st) : t \in Types, st \in StatusFields}

InitEnded ==
    /\ \E cs \in SeqsUpTo(EndedCreatures, MaxListLen) :
           /\ encounter_data = Doc(cs, <<>>, <<>>, <<>>)
           /\ store = Doc(cs, <<>>, <<>>, <<>>)
    /\ current_turn_character = None
    /\ is_active = TRUE
    /\ conversation_history = <<>>
    /\ party_tracker_data = [activeCombatEncounter |-> "E1", lastCompletedEncounter |-> ""]
    /\ pc = "idle"
    /\ call = NoCall
    /\ last = NoResult
    /\ turns = 0
    /\ request = NoRequest
    /\ ext_writes = 0
    /\ visited = <<>>
    /\ archive = <<>>
    /\ ServerIdle

CheckEndedCall ==
    /\ last = NoResult
    /\ last' = [op |-> "check_ended", value |-> check_combat_ended(encounter_data.creatures)]
    /\ UNCHANGED <<encounter_data, store, current_turn_character, is_active,
                   conversation_history, party_tracker_data, pc, call, turns, request, ext_writes, visited, archive, GAME_STATE, PLAYERS_SID_MAP, threads>>

NextEnded == CheckEndedCall

SpecEnded == InitEnded /\ [][NextEnded]_vars

AllDeadOfTypes(creatures, ts) ==
    \A i \in 1..Len(creatures) : creatures[i].type \in ts => IsDead(creatures[i])
SomeOfTypes(creatures, ts) ==
    \E i \in 1..Len(creatures) : creatures[i].type \in ts

\* C1 as stated: the result is true iff the list is empty, or every player is dead,
\* or every enemy/npc is dead, lists without a player or without an enemy/npc included
\* (for which "every ... is dead" holds of no creature at all).
C1_AsStated ==
    last.op = "check_ended" =>
        (last.value <=>
            \/ encounter_data.creatures = <<>>
            \/ AllDeadOfTypes(encounter_data.creatures, {"player"})
            \/ AllDeadOfTypes(encounter_data.creatures, {"enemy", "npc"}))

\* C1 amended: the result is true iff the list is empty, or there is at least one
\* player and every player is dead (any letter case), or there is at least one
\* enemy/npc and every enemy/npc is dead.
C1_EndedIffNonVacuous ==
    last.op = "check_ended" =>
        (last.value <=>
            \/ encounter_data.creatures = <<>>
            \/ /\ SomeOfTypes(encounter_data.creatures, {"player"})
               /\ AllDeadOfTypes(encounter_data.creatures, {"player"})
            \/ /\ SomeOfTypes(encounter_data.creatures, {"enemy", "npc"})
               /\ AllDeadOfTypes(encounter_data.creatures, {"enemy", "npc"}))

\* a list without any player and with a living enemy has been evaluated (to false),
\* and so has one whose only player is "Dead" with a capital letter
C1_Witness ==
    /\ last.op = "check_ended"
    /\ ~last.value
    /\ ~SomeOfTypes(encounter_data.creatures, {"player"})
    /\ SomeOfTypes(encounter_data.creatures, {"enemy", "npc"})

\* _advance_turn that counts the fallback to the first living creature as a new round
AdvanceTurnFallbackWraps(doc, cur) ==
    LET alive == AliveSorted(doc.creatures)
        idx == IndexOfName(alive, cur)
    IN IF doc.creatures = <<>> THEN [doc |-> doc, current |-> cur]
       ELSE IF alive = <<>> THEN [doc |-> doc, current |-> cur]
       ELSE IF idx >= 1 /\ idx < Len(alive)
            THEN [doc |-> doc, current |-> alive[idx + 1].name]
       ELSE [doc |-> [doc EXCEPT !.combat_round = <<Get(doc.combat_round, 1) + 1>>],
             current |-> alive[1].name]

(***************************************************************************)
(* CombatService._advance_turn: the encounter document and the turn        *)
(* pointer after the call.                                                 *)
(***************************************************************************)
advance_turn(doc, cur) ==
    LET alive == AliveSorted(doc.creatures)
        idx == IndexOfName(alive, cur)
    IN IF doc.creatures = <<>> THEN [doc |-> doc, current |-> cur]
       ELSE IF alive = <<>> THEN [doc |-> doc, current |-> cur]
       ELSE IF idx >= 1 /\ idx < Len(alive)
            THEN [doc |-> doc, current |-> alive[idx + 1].name]
       ELSE IF idx >= 1
            THEN [doc |-> [doc EXCEPT !.combat_round = <<Get(doc.combat_round, 1) + 1>>],
                  current |-> alive[1].name]
       ELSE [doc |-> doc, current |-> alive[1].name]

(***************************************************************************)
(* SpecAdvance: _advance_turn called N times on an encounter with N living *)
(* creatures of unique names, starting from each of them, with no status   *)
(* change in between.                                                      *)
(***************************************************************************)
Universe == <<"Mira", "Goblin", "Bob", "Alice">>
TypeOfName(n) == CASE n = "Goblin" -> "enemy" [] n = "Mira" -> "npc" [] OTHER -> "player"
Initiatives == {10, 15}
AdvanceStatusFields == {<<>>, <<"alive">>, <<"Dead">>}
RoundFields == {<<>>} \cup {<<r>> : r \in 1..MaxRound}

\* the rosters over a set of names: the names in Universe order, each with any
\* initiative and status
RostersOver(names, statuses) ==
    LET order == SelectSeqOf(Universe, names)
        fields == [1..Len(order) -> Initiatives \X statuses]
    IN {[i \in 1..Len(order) |->
            Creature(order[i], TypeOfName(order[i]), f[i][1], f[i][2])] : f \in fields}

AdvanceRosters ==
    UNION {RostersOver(names, AdvanceStatusFields) :
              names \in {ns \in SUBSET Range(Universe) : Cardinality(ns) <= MaxCreatures}}

LivingNames(creatures) == {creatures[i].name : i \in {j \in 1..Len(creatures) : ~IsDead(creatures[j])}}

InitAdvance ==
    /\ \E cs \in AdvanceRosters, cr \in RoundFields, cur \in {<<>>, <<2>>} :
           /\ LivingNames(cs) # {}
           /\ encounter_data = Doc(cs, cr, cur, <<>>)
           /\ store = Doc(cs, cr, cur, <<>>)
           /\ \E start \in LivingNames(cs) :
                  /\ current_turn_character = start
                  /\ call = [op |-> "advance", start |-> start,
                             n |-> Cardinality(LivingNames(cs)),
                             round0 |-> RoundOf(Doc(cs, cr, cur, <<>>))]
    /\ is_active = TRUE
    /\ conversation_history = <<>>
    /\ party_tracker_data = [activeCombatEncounter |-> "E1", lastCompletedEncounter |-> ""]
    /\ pc = "idle"
    /\ last = NoResult
    /\ turns = 0
    /\ request = NoRequest
    /\ ext_writes = 0
    /\ visited = <<>>
    /\ archive = <<>>
    /\ ServerIdle

AdvanceCall ==
    /\ call.op = "advance"
    /\ Len(visited) < call.n
    /\ LET r == advance_turn(encounter_data, current_turn_character)
       IN /\ encounter_data' = r.doc
          /\ current_turn_character' = r.current
          /\ visited' = Append(visited, r.current)
    /\ UNCHANGED <<store, is_active, conversation_history, party_tracker_data, pc, call,
                   last, turns, request, ext_writes, archive, GAME_STATE, PLAYERS_SID_MAP, threads>>

NextAdvance == AdvanceCall

SpecAdvance == InitAdvance /\ [][NextAdvance]_vars

\* the creature named n
CreatureNamed(creatures, n) == creatures[IndexOfName(creatures, n)]

\* a is strictly before b in (-initiative, name) order
InOrder(a, b) ==
    \/ a.initiative > b.initiative
    \/ a.initiative = b.initiative /\ NameRank(a.name) < NameRank(b.name)

\* the turn sequence start, visited[1], ..., visited[n]
TurnCycle == <<call.start>> \o visited

\* consecutive turns follow (-initiative, name) order, but for one wrap from the last
\* living creature to the first
CycleInOrder ==
    LET cs == encounter_data.creatures
        wraps == {k \in 1..Len(visited) :
                     ~InOrder(CreatureNamed(cs, TurnCycle[k]), CreatureNamed(cs, TurnCycle[k + 1]))}
    IN Cardinality(wraps) = 1

\* C4 without its round part: N calls visit every living creature exactly once, in
\* (-initiative, name) order, and return to the starting creature.
C4_CycleOnly ==
    (call.op = "advance" /\ Len(visited) = call.n) =>
        /\ current_turn_character = call.start
        /\ Range(visited) = LivingNames(encounter_data.creatures)
        /\ CycleInOrder

\* C4: N calls of _advance_turn, N the number of living creatures, return to the
\* starting creature, visit every living creature exactly once in (-initiative, name)
\* order, and increase the round by exactly 1.
C4_AdvanceCycle ==
    (call.op = "advance" /\ Len(visited) = call.n) =>
        /\ current_turn_character = call.start
        /\ Range(visited) = LivingNames(encounter_data.creatures)
        /\ CycleInOrder
        /\ RoundOf(encounter_data) = call.round0 + 1

(***************************************************************************)
(* The session: construction, process_player_turn, process_ai_turns,       *)
(* get_current_combat_state, and the document store written from outside.  *)
(***************************************************************************)
InitiativeOfName(n) ==
    CASE n = "Alice" -> 15 [] n = "Hero" -> 15 [] n = "Mira" -> 12 [] OTHER -> 10

SessionStatuses == {"alive", "Dead"}

SessionCreature(n, st) == Creature(n, TypeOfName(n), InitiativeOfName(n), <<st>>)

\* the encounter documents the sessions are constructed on: the Hero/Goblin encounter
\* with the round written in either field or in none, and with either creature dead;
\* two players and an enemy, listed out of initiative order; an encounter without any
\* player; the empty creature list
SessionDocs ==
    {Doc(<<SessionCreature("Hero", "alive"), SessionCreature("Goblin", "alive")>>,
         h[1], h[2], <<>>) : h \in {<<<<>>, <<>>>>, <<<<1>>, <<>>>>, <<<<>>, <<2>>>>}}
    \cup {Doc(<<SessionCreature("Hero", a), SessionCreature("Goblin", b)>>, <<>>, <<>>, <<>>) :
             a \in SessionStatuses, b \in SessionStatuses}
    \cup {Doc(<<SessionCreature("Goblin", "alive"), SessionCreature("Bob", "alive"),
                SessionCreature("Alice", a)>>, <<1>>, <<>>, <<>>) : a \in SessionStatuses}
    \cup {Doc(<<SessionCreature("Mira", "alive"), SessionCreature("Goblin", "alive")>>,
              <<>>, <<>>, <<>>),
          Doc(<<>>, <<>>, <<>>, <<>>)}

\* the transcript entries, by role and kind
SystemEntry == "system"
PromptEntry == "user:prompt"
JsonNoteEntry == "user:invalid-json"
FeedbackEntry == "user:feedback"
AssistantEntry == "assistant"

\* _initialize_conversation_history / _populate_system_messages: five system entries,
\* and two more when a player record was loaded
InitialHistory(player_info) ==
    [i \in 1..(IF player_info THEN 7 ELSE 5) |-> SystemEntry]

\* CombatService._determine_first_turn
determine_first_turn(doc) ==
    IF doc = NoDoc THEN None
    ELSE IF doc.creatures = <<>> THEN None
    ELSE SortedByInitiative(doc.creatures)[1].name

HasType(creatures, t) == \E i \in 1..Len(creatures) : creatures[i].type = t

\* the last creature of type t in the list, 0 when there is none
LastOfType(creatures, t) ==
    IF HasType(creatures, t)
    THEN CHOOSE i \in 1..Len(creatures) :
            /\ creatures[i].type = t
            /\ \A j \in (i + 1)..Len(creatures) : creatures[j].type # t
    ELSE 0

\* construction that also gives up when the record of an npc does not load
ConstructNpcRequired(loaded, doc, files) ==
    IF ~loaded
    THEN [store |-> NoDoc, encounter_data |-> NoDoc, is_active |-> FALSE,
          conversation_history |-> <<>>, current_turn_character |-> None]
    ELSE [store |-> doc, encounter_data |-> doc,
          is_active |-> \A i \in 1..Len(doc.creatures) : doc.creatures[i].name \in files,
          conversation_history |-> InitialHistory(FALSE),
          current_turn_character |-> determine_first_turn(doc)]

\* __init__, _initialize_combat_state and _load_creature_data: the session constructed
\* on the encounter document doc (loaded: whether the encounter file loads), files the
\* names of the creatures whose player record, monster template or npc record loads
Construct(loaded, doc, files) ==
    IF ~loaded
    THEN [store |-> NoDoc, encounter_data |-> NoDoc, is_active |-> FALSE,
          conversation_history |-> <<>>, current_turn_character |-> None]
    ELSE LET cs == doc.creatures
             p == LastOfType(cs, "player")
             player_info == p # 0 /\ cs[p].name \in files
         IN [store |-> doc, encounter_data |-> doc,
             is_active |-> \A i \in 1..Len(cs) :
                              cs[i].type \in {"player", "enemy"} => cs[i].name \in files,
             conversation_history |-> InitialHistory(player_info),
             current_turn_character |-> determine_first_turn(doc)]

\* the state after construction, pt the party tracker the session was given
ConstructedWith(c, pt) ==
    /\ store = c.store
    /\ encounter_data = c.encounter_data
    /\ is_active = c.is_active
    /\ conversation_history = c.conversation_history
    /\ current_turn_character = c.current_turn_character
    /\ party_tracker_data = pt
    /\ pc = "idle"
    /\ last = NoResult
    /\ turns = 0
    /\ request = NoRequest
    /\ ext_writes = 0
    /\ visited = <<>>
    /\ archive = <<>>
    /\ ServerIdle

\* the sessions are started for the encounter E1 that the party tracker names
Constructed(c) ==
    ConstructedWith(c, [activeCombatEncounter |-> "E1", lastCompletedEncounter |-> ""])

Init ==
    /\ \E loaded \in BOOLEAN, doc \in SessionDocs :
          \E files \in SUBSET Range([i \in 1..Len(doc.creatures) |-> doc.creatures[i].name]) :
             /\ ~loaded => (doc.creatures = <<>>)
             /\ Constructed(Construct(loaded, doc, files))
    /\ call = NoCall

(***************************************************************************)
(* The collaborators outside the engine, by their effect on the documents. *)
(***************************************************************************)
\* updates.update_encounter.update_encounter: a status change written into the
\* persisted encounter document
update_encounter(doc, n, st) ==
    IF doc = NoDoc THEN doc
    ELSE [doc EXCEPT !.creatures =
             [i \in 1..Len(doc.creatures) |->
                 IF doc.creatures[i].name = n
                 THEN [doc.creatures[i] EXCEPT !.status = <<st>>]
                 ELSE doc.creatures[i]]]

NamesOfTypes(doc, ts) ==
    IF doc = NoDoc THEN {}
    ELSE {doc.creatures[i].name : i \in {j \in 1..Len(doc.creatures) : doc.creatures[j].type \in ts}}

\* sync_active_encounter: the status of a player or npc record copied into the
\* persisted encounter document; the record differs from the document only when it
\* was written from outside (budget: whether such a write is still allowed)
SyncOutcomes(doc, budget) ==
    {doc} \cup (IF budget
                THEN {update_encounter(doc, n, st) :
                         n \in NamesOfTypes(doc, {"player", "npc"}), st \in SessionStatuses}
                ELSE {})

\* generate_prerolls(encounter, round_num): the text of a batch rolled for round r is
\* written r; 0 is the empty text
GeneratedRolls(r) == {0, r}

\* the cache lookup that never reads the cache and generates on every call
PrerollsAlwaysGenerate(doc, round_num, gen) ==
    [doc |-> [doc EXCEPT !.preroll_cache = <<[round |-> round_num, rolls |-> gen]>>],
     saved |-> TRUE, text |-> gen]

\* the cache lookup that fills the cache in memory and leaves out the save
PrerollsNoSaveOnMiss(doc, round_num, gen) ==
    LET cached_round == IF doc.preroll_cache = <<>> THEN 0 ELSE doc.preroll_cache[1].round
        cached_rolls == IF doc.preroll_cache = <<>> THEN 0 ELSE doc.preroll_cache[1].rolls
        fresh == [doc EXCEPT !.preroll_cache = <<[round |-> round_num, rolls |-> gen]>>]
    IN IF round_num > cached_round \/ cached_rolls = 0
       THEN [doc |-> fresh, saved |-> FALSE, text |-> gen]
       ELSE [doc |-> doc, saved |-> FALSE, text |-> cached_rolls]

(***************************************************************************)
(* CombatService._get_prerolls_for_round.  gen is what generate_prerolls   *)
(* returns if it is called.  The preroll_id of the cache entry is never    *)
(* read and is left out.                                                   *)
(***************************************************************************)
get_prerolls_for_round(doc, round_num, gen) ==
    LET cached_round == IF doc.preroll_cache = <<>> THEN 0 ELSE doc.preroll_cache[1].round
        cached_rolls == IF doc.preroll_cache = <<>> THEN 0 ELSE doc.preroll_cache[1].rolls
        fresh == [doc EXCEPT !.preroll_cache = <<[round |-> round_num, rolls |-> gen]>>]
    IN IF round_num > cached_round
       THEN [doc |-> fresh, saved |-> TRUE, text |-> gen]
       ELSE IF cached_rolls = 0
            THEN [doc |-> fresh, saved |-> TRUE, text |-> gen]
            ELSE [doc |-> doc, saved |-> FALSE, text |-> cached_rolls]

(***************************************************************************)
(* SpecPrerolls: _get_prerolls_for_round called twice for one round on an  *)
(* encounter whose cache is missing or holds a batch of any round.  A      *)
(* rolls text is written as the number of the batch generate_prerolls      *)
(* returned, 0 the empty text.                                             *)
(***************************************************************************)
Batches == 0..MaxBatch

PrerollCaches ==
    {<<>>} \cup {<<[round |-> c, rolls |-> t]>> : c \in 1..MaxRound, t \in Batches}

InitPrerolls ==
    /\ \E cache \in PrerollCaches, cr \in RoundFields, r \in 1..MaxRound :
           LET doc == Doc(<<SessionCreature("Hero", "alive"), SessionCreature("Goblin", "alive")>>,
                          cr, <<>>, cache)
           IN /\ encounter_data = doc
              /\ store = doc
              /\ call = [op |-> "prerolls", round |-> r, cache0 |-> cache]
    /\ current_turn_character = "Hero"
    /\ is_active = TRUE
    /\ conversation_history = <<>>
    /\ party_tracker_data = [activeCombatEncounter |-> "E1", lastCompletedEncounter |-> ""]
    /\ pc = "idle"
    /\ last = NoResult
    /\ turns = 0
    /\ request = NoRequest
    /\ ext_writes = 0
    /\ visited = <<>>
    /\ archive = <<>>
    /\ ServerIdle

\* one call; visited collects what each call returned, whether it saved, and the
\* cache it left
PrerollCall ==
    /\ call.op = "prerolls"
    /\ Len(visited) < 2
    /\ \E gen \in Batches :
           LET pr == get_prerolls_for_round(encounter_data, call.round, gen)
           IN /\ encounter_data' = pr.doc
              /\ store' = IF pr.saved THEN pr.doc ELSE store
              /\ visited' = Append(visited, [text |-> pr.text, saved |-> pr.saved,
                                             cache |-> pr.doc.preroll_cache])
    /\ UNCHANGED <<current_turn_character, is_active, conversation_history,
                   party_tracker_data, pc, call, last, turns, request, ext_writes, archive, GAME_STATE, PLAYERS_SID_MAP, threads>>

NextPrerolls == PrerollCall

SpecPrerolls == InitPrerolls /\ [][NextPrerolls]_vars

\* the number of saves among the calls made
SavesOf(results) == Cardinality({i \in 1..Len(results) : results[i].saved})

\* C11 as stated: two consecutive calls for one round, the first of which generates,
\* return the identical rolls text and save the document exactly once (never on the
\* second call), whatever the first generation returned, the empty text included.
C11_AsStated ==
    (call.op = "prerolls" /\ Len(visited) = 2 /\ visited[1].saved) =>
        /\ visited[2].text = visited[1].text
        /\ ~visited[2].saved
        /\ SavesOf(visited) = 1

\* C11 amended: two consecutive calls for one round, the first of which generates a
\* non-empty rolls text, return the identical text and save the document exactly once,
\* on the first call; after an empty first text the second call generates and saves
\* again.
C11_SameRoundCached ==
    (call.op = "prerolls" /\ Len(visited) = 2 /\ visited[1].saved) =>
        IF visited[1].text # 0
        THEN /\ visited[2].text = visited[1].text
             /\ ~visited[2].saved
             /\ SavesOf(visited) = 1
        ELSE /\ visited[2].saved
             /\ SavesOf(visited) = 2

C11_Witness ==
    /\ call.op = "prerolls"
    /\ Len(visited) = 2
    /\ visited[1].saved
    /\ visited[1].text # 0
    /\ visited[2].text = visited[1].text
    /\ store = encounter_data

\* C12: a call for round r + 1 when the cache holds round r generates a new rolls
\* text, sets preroll_cache.round to r + 1, and saves the encounter document once.
C12_MissPersists ==
    (call.op = "prerolls" /\ Len(visited) >= 1 /\ call.cache0 # <<>>
        /\ call.round = call.cache0[1].round + 1) =>
        /\ visited[1].saved
        /\ visited[1].cache # <<>>
        /\ visited[1].cache[1].round = call.round
        /\ visited[1].cache[1].rolls = visited[1].text
        /\ Len(visited) = 1 => (store = encounter_data /\ store.preroll_cache = visited[1].cache)

C12_Witness ==
    /\ call.op = "prerolls"
    /\ Len(visited) = 1
    /\ call.cache0 # <<>>
    /\ call.cache0[1].rolls # 0
    /\ call.round = call.cache0[1].round + 1
    /\ visited[1].text # call.cache0[1].rolls
    /\ store.preroll_cache[1].round = call.round

\* C14: a call for round r returns the cached rolls text only when the cached round
\* equals r and the cached text is not empty; for every other cached round, a greater
\* one included, it generates a batch and stores it under round r.
C14_CachedOnlySameRound ==
    (call.op = "prerolls" /\ Len(visited) >= 1) =>
        IF call.cache0 # <<>> /\ call.cache0[1].round = call.round /\ call.cache0[1].rolls # 0
        THEN ~visited[1].saved /\ visited[1].text = call.cache0[1].rolls
        ELSE /\ visited[1].saved
             /\ visited[1].cache[1].round = call.round

\* C14 apart from a cached round greater than r: the cached text is served when the
\* cached round is r and the text is not empty, and a batch is generated and stored
\* under r when the cached round is smaller or the cached text is empty.
C14_ExceptGreaterRound ==
    (call.op = "prerolls" /\ Len(visited) >= 1
        /\ (call.cache0 = <<>> \/ call.cache0[1].round <= call.round
                \/ call.cache0[1].rolls = 0)) =>
        IF call.cache0 # <<>> /\ call.cache0[1].round = call.round /\ call.cache0[1].rolls # 0
        THEN ~visited[1].saved /\ visited[1].text = call.cache0[1].rolls
        ELSE /\ visited[1].saved
             /\ visited[1].cache[1].round = call.round

(***************************************************************************)
(* Oracle responses: the actions array and the optional combat_round.      *)
(***************************************************************************)
Action(kind, n, st, throws) ==
    [dict |-> TRUE, action |-> kind, name |-> n, status |-> st, throws |-> throws]
\* an entry of the actions array that is no JSON object
NonDictAction == [dict |-> FALSE, action |-> "", name |-> "", status |-> "", throws |-> FALSE]

LowerAction(a) ==
    CASE a = "updateEncounter" -> "updateencounter"
      [] a = "updateCharacterInfo" -> "updatecharacterinfo"
      [] OTHER -> a

Response(actions, cr) == [actions |-> actions, combat_round |-> cr]

\* the actions of the responses in the sessions: an enemy or npc declared dead (the
\* mutator succeeding or raising), a player record updated, an action of a kind the
\* engine does not know, and an entry that is no object
SessionActionsFor(doc) ==
    {Action("updateEncounter", n, "Dead", FALSE) : n \in NamesOfTypes(doc, {"enemy", "npc"})}
    \cup {Action("updateEncounter", n, "Dead", TRUE) : n \in NamesOfTypes(doc, {"enemy"})}
    \cup {Action("updateCharacterInfo", n, "Dead", FALSE) : n \in NamesOfTypes(doc, {"player"})}
    \cup {Action("createNewModule", "", "", FALSE), NonDictAction}

\* the accepted responses: at most one action, and no combat_round, the first round
\* or the last round of the model as combat_round
SessionResponsesFor(doc) ==
    {Response(as, cr) : as \in SeqsUpTo(SessionActionsFor(doc), 1),
                        cr \in {<<>>, <<1>>, <<MaxRound>>}}

\* what a response that the rule checker rejects may carry
RejectedResponsesFor(doc) ==
    {Response(<<>>, <<>>)} \cup {Response(<<a>>, <<MaxRound>>) : a \in SessionActionsFor(doc)}

(***************************************************************************)
(* CombatService._process_action, folded over the actions array: the       *)
(* persisted document after the mutators ran, the number of mutator calls  *)
(* that succeeded, and whether an entry raised out of _process_action.     *)
(***************************************************************************)
RECURSIVE process_actions(_, _, _)
process_actions(actions, st, applied) ==
    IF actions = <<>> THEN [store |-> st, applied |-> applied, raised |-> FALSE]
    ELSE LET a == actions[1]
         IN IF ~a.dict THEN [store |-> st, applied |-> applied, raised |-> TRUE]
            ELSE IF LowerAction(a.action) = "updatecharacterinfo"
                 THEN process_actions(Tail(actions), st, IF a.throws THEN applied ELSE applied + 1)
            ELSE IF LowerAction(a.action) = "updateencounter"
                 THEN IF a.throws
                      THEN process_actions(Tail(actions), st, applied)
                      ELSE process_actions(Tail(actions), update_encounter(st, a.name, a.status),
                                           applied + 1)
            ELSE process_actions(Tail(actions), st, applied)

(***************************************************************************)
(* CombatService._process_ai_response                                      *)
(***************************************************************************)
process_ai_response(mem, st, r) ==
    LET done == process_actions(r.actions, st, 0)
        mem2 == IF r.combat_round # <<>>
                THEN [mem EXCEPT !.combat_round = r.combat_round]
                ELSE mem
    IN IF done.raised
       THEN [mem |-> mem, store |-> done.store, applied |-> done.applied, saves |-> 0]
       ELSE [mem |-> mem2, store |-> mem2, applied |-> done.applied, saves |-> 1]

(***************************************************************************)
(* CombatService._end_combat on the party tracker                          *)
(***************************************************************************)
\* _end_combat that drops the encounter id instead of recording it
EndCombatForgets(pt) ==
    IF pt.activeCombatEncounter = None THEN pt
    ELSE [pt EXCEPT !.activeCombatEncounter = ""]

\* activeCombatEncounter is None when worldConditions holds no such key
end_combat(pt) ==
    IF pt.activeCombatEncounter = None THEN pt
    ELSE [activeCombatEncounter |-> "",
          lastCompletedEncounter |-> IF pt.activeCombatEncounter # ""
                                     THEN pt.activeCombatEncounter
                                     ELSE pt.lastCompletedEncounter]

\* _generate_combat_summary and _generate_chat_history, called by _end_combat one after
\* the other while is_active still has the value active; neither raises
end_combat_calls(active) ==
    <<[op |-> "summarize_dialogue", is_active |-> active],
      [op |-> "generate_chat_history", is_active |-> active]>>

(***************************************************************************)
(* CombatService._get_ai_response_with_validation, one pass of its loop:   *)
(* the oracle raised, answered no JSON, answered what the rule checker     *)
(* rejects, or answered what it accepts.                                   *)
(***************************************************************************)
Outcomes == {"exception", "badjson", "reject", "accept"}

NewRequest(hist) ==
    [status |-> "running", attempt |-> 0, oracle_calls |-> 0, base |-> Len(hist),
     first |-> "none", only_rejections |-> TRUE]

\* an attempt that appends its corrective entry on the last attempt too
ValidationAttemptNotesLast(req, hist, outcome) ==
    LET a == req.attempt
        seen == [req EXCEPT !.attempt = a + 1, !.oracle_calls = @ + 1,
                            !.first = IF @ = "none" THEN outcome ELSE @,
                            !.only_rejections = @ /\ outcome = "reject"]
        retry == a < max_retries - 1
    IN CASE outcome = "accept" ->
              [request |-> [seen EXCEPT !.status = "accepted"],
               history |-> Append(hist, AssistantEntry)]
         [] outcome = "exception" ->
              [request |-> [seen EXCEPT !.status = IF a >= max_retries - 1 THEN "failed" ELSE "running"],
               history |-> hist]
         [] OTHER ->
              [request |-> [seen EXCEPT !.status = IF retry THEN "running" ELSE "failed"],
               history |-> Append(hist, IF outcome = "badjson" THEN JsonNoteEntry ELSE FeedbackEntry)]

\* an attempt that appends the response before it is checked
ValidationAttemptKeepsRejected(req, hist, outcome) ==
    LET a == req.attempt
        seen == [req EXCEPT !.attempt = a + 1, !.oracle_calls = @ + 1,
                            !.first = IF @ = "none" THEN outcome ELSE @,
                            !.only_rejections = @ /\ outcome = "reject"]
        retry == a < max_retries - 1
    IN CASE outcome = "accept" ->
              [request |-> [seen EXCEPT !.status = "accepted"],
               history |-> Append(hist, AssistantEntry)]
         [] outcome = "exception" ->
              [request |-> [seen EXCEPT !.status = IF a >= max_retries - 1 THEN "failed" ELSE "running"],
               history |-> hist]
         [] outcome = "badjson" ->
              [request |-> [seen EXCEPT !.status = IF retry THEN "running" ELSE "failed"],
               history |-> IF retry THEN Append(hist, JsonNoteEntry) ELSE hist]
         [] OTHER ->
              [request |-> [seen EXCEPT !.status = IF retry THEN "running" ELSE "failed"],
               history |-> IF retry THEN Append(Append(hist, AssistantEntry), FeedbackEntry)
                           ELSE hist]

\* one pass of the loop of _get_ai_response_with_validation, the oracle's part of it
\* given by outcome
validation_attempt(req, hist, outcome) ==
    LET a == req.attempt
        seen == [req EXCEPT !.attempt = a + 1, !.oracle_calls = @ + 1,
                            !.first = IF @ = "none" THEN outcome ELSE @,
                            !.only_rejections = @ /\ outcome = "reject"]
        retry == a < max_retries - 1
    IN CASE outcome = "accept" ->
              [request |-> [seen EXCEPT !.status = "accepted"],
               history |-> Append(hist, AssistantEntry)]
         [] outcome = "exception" ->
              [request |-> [seen EXCEPT !.status = IF a >= max_retries - 1 THEN "failed" ELSE "running"],
               history |-> hist]
         [] outcome = "badjson" ->
              [request |-> [seen EXCEPT !.status = IF retry THEN "running" ELSE "failed"],
               history |-> IF retry THEN Append(hist, JsonNoteEntry) ELSE hist]
         [] OTHER ->
              [request |-> [seen EXCEPT !.status = IF retry THEN "running" ELSE "failed"],
               history |-> IF retry THEN Append(hist, FeedbackEntry) ELSE hist]

\* clean_old_dm_notes rewrites the content of old user entries; the entries stay
clean_old_dm_notes(hist) == hist

\* the keys of the dictionary of an active session
StateKeys ==
    {"is_active", "encounter_id", "current_round", "current_turn", "initiative_order",
     "combat_log", "player_info", "creatures"}

\* get_current_combat_state that lists the dead creatures too
GetStateKeepsDead(doc, cur, active) ==
    IF ~active
    THEN [kind |-> "inactive", is_active |-> FALSE, current_round |-> 0, current_turn |-> None,
          keys |-> {"is_active"}, initiative_order |-> <<>>]
    ELSE [kind |-> "state", is_active |-> TRUE, current_round |-> RoundOf(doc),
          current_turn |-> cur, keys |-> StateKeys,
          initiative_order |-> SortedByInitiative(doc.creatures)]

\* CombatService.get_current_combat_state, as far as the checks read it: keys are the
\* keys of the returned dictionary; the fields of a key it does not hold are fillers
get_current_combat_state(doc, cur, active) ==
    IF ~active
    THEN [kind |-> "inactive", is_active |-> FALSE, current_round |-> 0, current_turn |-> None,
          keys |-> {"is_active"}, initiative_order |-> <<>>]
    ELSE [kind |-> "state", is_active |-> TRUE, current_round |-> RoundOf(doc),
          current_turn |-> cur, keys |-> StateKeys,
          initiative_order |-> AliveSorted(doc.creatures)]

ErrorResult(kind) ==
    [kind |-> kind, is_active |-> FALSE, current_round |-> 0, current_turn |-> None]

\* the result of a finished call, with what the call did and where it started
\* (store_ended0: the combat-end predicate on the persisted document at the call)
Returned(op, res, c) ==
    [op |-> op, player |-> c.player, kind |-> res.kind, is_active |-> res.is_active,
     current_round |-> res.current_round, current_turn |-> res.current_turn,
     applied |-> c.applied, failed |-> c.failed, rejected_actions |-> c.rejected_actions,
     round0 |-> c.round0, current0 |-> c.current0, hist0 |-> c.hist0,
     store_ended0 |-> c.store_ended0]

NewCall(op, name) ==
    [op |-> op, player |-> name, applied |-> 0, failed |-> 0, rejected_actions |-> FALSE,
     round0 |-> IF encounter_data = NoDoc THEN 0 ELSE RoundOf(encounter_data),
     current0 |-> current_turn_character, hist0 |-> Len(conversation_history),
     store_ended0 |-> store # NoDoc /\ check_combat_ended(store.creatures)]

CallerNames ==
    {None} \cup (IF encounter_data = NoDoc THEN {} ELSE NamesOfTypes(encounter_data, Types))

\* process_player_turn without the is_active check of its first lines
PlayerTurnInactiveRuns(name) ==
    /\ pc = "idle"
    /\ ~is_active
    /\ encounter_data # NoDoc
    /\ conversation_history' = Append(clean_old_dm_notes(conversation_history), PromptEntry)
    /\ last' = Returned("player", ErrorResult("error_ai"), NewCall("player", name))
    /\ UNCHANGED <<encounter_data, store, current_turn_character, is_active,
                   party_tracker_data, pc, call, turns, request, ext_writes, visited, archive, GAME_STATE, PLAYERS_SID_MAP, threads>>

(***************************************************************************)
(* CombatService.process_player_turn up to the validator                   *)
(***************************************************************************)
PlayerTurnInactive(name) ==
    /\ pc = "idle"
    /\ ~is_active
    /\ last' = Returned("player", ErrorResult("error_inactive"), NewCall("player", name))
    /\ UNCHANGED <<encounter_data, store, current_turn_character, is_active,
                   conversation_history, party_tracker_data, pc, call, turns, request, ext_writes, visited, archive, GAME_STATE, PLAYERS_SID_MAP, threads>>

PlayerTurnNotOwner(name) ==
    /\ pc = "idle"
    /\ is_active
    /\ name # current_turn_character
    /\ last' = Returned("player", ErrorResult("error_not_turn"), NewCall("player", name))
    /\ UNCHANGED <<encounter_data, store, current_turn_character, is_active,
                   conversation_history, party_tracker_data, pc, call, turns, request, ext_writes, visited, archive, GAME_STATE, PLAYERS_SID_MAP, threads>>

\* process_player_turn without the comparison of the name with the turn pointer
PlayerTurnNoOwnerCheck(name) ==
    /\ pc = "idle"
    /\ is_active
    /\ turns < MaxTurns
    /\ \E synced \in SyncOutcomes(store, ext_writes < MaxExternalWrites) :
         \E gen \in GeneratedRolls(RoundOf(synced)) :
           LET pr == get_prerolls_for_round(synced, RoundOf(synced), gen)
               hist == Append(clean_old_dm_notes(conversation_history), PromptEntry)
           IN /\ encounter_data' = pr.doc
              /\ store' = IF pr.saved THEN pr.doc ELSE synced
              /\ conversation_history' = hist
              /\ request' = NewRequest(hist)
              /\ ext_writes' = IF synced = store THEN ext_writes ELSE ext_writes + 1
    /\ call' = NewCall("player", name)
    /\ pc' = "validate"
    /\ turns' = turns + 1
    /\ last' = NoResult
    /\ UNCHANGED <<current_turn_character, is_active, party_tracker_data, visited, archive, GAME_STATE, PLAYERS_SID_MAP, threads>>

PlayerTurnBegin(name) ==
    /\ pc = "idle"
    /\ is_active
    /\ name = current_turn_character
    /\ store # NoDoc
    /\ turns < MaxTurns
    /\ \E synced \in SyncOutcomes(store, ext_writes < MaxExternalWrites) :
         \E gen \in GeneratedRolls(RoundOf(synced)) :
           \* _refresh_conversation_history reloads the document; then the prerolls
           LET pr == get_prerolls_for_round(synced, RoundOf(synced), gen)
               hist == Append(clean_old_dm_notes(conversation_history), PromptEntry)
           IN /\ encounter_data' = pr.doc
              /\ store' = IF pr.saved THEN pr.doc ELSE synced
              /\ conversation_history' = hist
              /\ request' = NewRequest(hist)
              /\ ext_writes' = IF synced = store THEN ext_writes ELSE ext_writes + 1
    /\ call' = NewCall("player", name)
    /\ pc' = "validate"
    /\ turns' = turns + 1
    /\ last' = NoResult
    /\ UNCHANGED <<current_turn_character, is_active, party_tracker_data, visited, archive, GAME_STATE, PLAYERS_SID_MAP, threads>>

(***************************************************************************)
(* CombatService.process_ai_turns: the entry, and the head of its loop     *)
(* with _create_ai_turn_prompt.                                            *)
(***************************************************************************)
AiTurnsInactive ==
    /\ pc = "idle"
    /\ ~is_active
    /\ last' = Returned("ai", ErrorResult("error_inactive"), NewCall("ai", None))
    /\ UNCHANGED <<encounter_data, store, current_turn_character, is_active,
                   conversation_history, party_tracker_data, pc, call, turns, request, ext_writes, visited, archive, GAME_STATE, PLAYERS_SID_MAP, threads>>

AiTurnsCall ==
    /\ pc = "idle"
    /\ is_active
    /\ pc' = "ai_loop"
    /\ call' = NewCall("ai", None)
    /\ last' = NoResult
    /\ UNCHANGED <<encounter_data, store, current_turn_character, is_active,
                   conversation_history, party_tracker_data, turns, request, ext_writes, visited, archive, GAME_STATE, PLAYERS_SID_MAP, threads>>

\* the loop goes on: a current creature that is in the list and is no player
AiLoopContinues ==
    /\ current_turn_character # None
    /\ is_active
    /\ IndexOfName(encounter_data.creatures, current_turn_character) # 0
    /\ CreatureNamed(encounter_data.creatures, current_turn_character).type # "player"

AiLoopReturn ==
    /\ pc = "ai_loop"
    /\ encounter_data # NoDoc
    /\ ~AiLoopContinues
    /\ last' = Returned("ai", get_current_combat_state(encounter_data, current_turn_character,
                                                       is_active), call)
    /\ pc' = "idle"
    /\ call' = NoCall
    /\ UNCHANGED <<encounter_data, store, current_turn_character, is_active,
                   conversation_history, party_tracker_data, turns, request, ext_writes, visited, archive, GAME_STATE, PLAYERS_SID_MAP, threads>>

AiLoopTurn ==
    /\ pc = "ai_loop"
    /\ encounter_data # NoDoc
    /\ AiLoopContinues
    /\ turns < MaxTurns
    /\ \E gen \in GeneratedRolls(RoundOf(encounter_data)) :
           LET pr == get_prerolls_for_round(encounter_data, RoundOf(encounter_data), gen)
               hist == Append(conversation_history, PromptEntry)
           IN /\ encounter_data' = pr.doc
              /\ store' = IF pr.saved THEN pr.doc ELSE store
              /\ conversation_history' = hist
              /\ request' = NewRequest(hist)
    /\ pc' = "validate"
    /\ turns' = turns + 1
    /\ UNCHANGED <<current_turn_character, is_active, party_tracker_data, call, last,
                   ext_writes, visited, archive, GAME_STATE, PLAYERS_SID_MAP, threads>>

(***************************************************************************)
(* One attempt of the validator, and, when it is the last one of the       *)
(* request, the rest of the caller: process_player_turn from its line 432, *)
(* or _process_ai_turn and the tail of the loop of process_ai_turns.       *)
(***************************************************************************)
FinishAiTurn(v, r) ==
    LET ok == v.request.status = "accepted"
        p == IF ok THEN process_ai_response(encounter_data, store, r)
             ELSE [mem |-> encounter_data, store |-> store, applied |-> 0]
        adv == advance_turn(p.mem, current_turn_character)
        ended == check_combat_ended(adv.doc.creatures)
        c == [call EXCEPT !.applied = @ + p.applied, !.failed = @ + (IF ok THEN 0 ELSE 1)]
    IN /\ encounter_data' = adv.doc
       /\ store' = p.store
       /\ current_turn_character' = adv.current
       /\ conversation_history' = v.history
       /\ IF ended
          THEN /\ party_tracker_data' = end_combat(party_tracker_data)
               /\ UNCHANGED server
               /\ archive' = archive \o end_combat_calls(is_active)
               /\ is_active' = FALSE
               /\ last' = Returned("ai", get_current_combat_state(adv.doc, adv.current, FALSE), c)
               /\ pc' = "idle"
               /\ call' = NoCall
          ELSE /\ pc' = "ai_loop"
               /\ call' = c
               /\ UNCHANGED <<party_tracker_data, is_active, last, archive, GAME_STATE, PLAYERS_SID_MAP, threads>>

FinishPlayerTurn(v, r) ==
    IF v.request.status = "failed"
    THEN /\ last' = Returned("player", ErrorResult("error_ai"), call)
         /\ conversation_history' = v.history
         /\ pc' = "idle"
         /\ call' = NoCall
         /\ UNCHANGED <<encounter_data, store, current_turn_character, is_active,
                        party_tracker_data, archive, GAME_STATE, PLAYERS_SID_MAP, threads>>
    ELSE LET p == process_ai_response(encounter_data, store, r)
             adv == advance_turn(p.mem, current_turn_character)
             ended == check_combat_ended(adv.doc.creatures)
             c == [call EXCEPT !.applied = @ + p.applied]
         IN /\ encounter_data' = adv.doc
            /\ store' = p.store
            /\ current_turn_character' = adv.current
            /\ conversation_history' = v.history
            /\ is_active' = ~ended
            /\ party_tracker_data' = IF ended THEN end_combat(party_tracker_data)
                                     ELSE party_tracker_data
            /\ UNCHANGED server
            /\ archive' = IF ended THEN archive \o end_combat_calls(is_active) ELSE archive
            /\ last' = Returned("player",
                                get_current_combat_state(adv.doc, adv.current, ~ended), c)
            /\ pc' = "idle"
            /\ call' = NoCall

\* what the oracle may answer with at an attempt
AnswersFor(outcome) ==
    IF outcome = "accept" THEN SessionResponsesFor(encounter_data)
    ELSE IF outcome = "reject" THEN RejectedResponsesFor(encounter_data)
    ELSE {Response(<<>>, <<>>)}

\* an attempt that applies the response before the rule checker has accepted it
AttemptAppliesRejected(outcome, r) ==
    /\ pc = "validate"
    /\ LET v == validation_attempt(request, conversation_history, outcome)
           p == process_ai_response(encounter_data, store, r)
       IN /\ request' = v.request
          /\ IF v.request.status = "running"
             THEN /\ conversation_history' = v.history
                  /\ call' = [call EXCEPT !.rejected_actions =
                                  @ \/ (outcome = "reject" /\ r.actions # <<>>)]
                  /\ encounter_data' = IF outcome = "reject" THEN p.mem ELSE encounter_data
                  /\ store' = IF outcome = "reject" THEN p.store ELSE store
                  /\ UNCHANGED <<current_turn_character, is_active,
                                 party_tracker_data, pc, last, archive, GAME_STATE, PLAYERS_SID_MAP, threads>>
             ELSE IF call.op = "player" THEN FinishPlayerTurn(v, r)
             ELSE FinishAiTurn(v, r)
    /\ UNCHANGED <<turns, ext_writes, visited>>

AttemptWith(outcome, r) ==
    /\ pc = "validate"
    /\ LET v == validation_attempt(request, conversation_history, outcome)
       IN /\ request' = v.request
          /\ IF v.request.status = "running"
             THEN /\ conversation_history' = v.history
                  /\ call' = [call EXCEPT !.rejected_actions =
                                  @ \/ (outcome = "reject" /\ r.actions # <<>>)]
                  /\ UNCHANGED <<encounter_data, store, current_turn_character, is_active,
                                 party_tracker_data, pc, last, archive, GAME_STATE, PLAYERS_SID_MAP, threads>>
             ELSE IF call.op = "player" THEN FinishPlayerTurn(v, r)
             ELSE FinishAiTurn(v, r)
    /\ UNCHANGED <<turns, ext_writes, visited>>

\* In the sessions the oracle fails in one way during a request, and is accepted at
\* its first attempt or never; SpecValidator below explores every mix of outcomes.
Attempt ==
    \E outcome \in Outcomes :
        /\ pc = "validate"
        /\ outcome = "accept" => request.attempt = 0
        /\ outcome # "accept" => request.first \in {"none", outcome}
        /\ \E r \in AnswersFor(outcome) : AttemptWith(outcome, r)

(***************************************************************************)
(* get_current_combat_state called by the server                           *)
(***************************************************************************)
GetState ==
    /\ pc = "idle"
    /\ is_active => encounter_data # NoDoc
    /\ last' = Returned("get_state",
                        get_current_combat_state(encounter_data, current_turn_character,
                                                 is_active),
                        NewCall("get_state", None))
    /\ UNCHANGED <<encounter_data, store, current_turn_character, is_active,
                   conversation_history, party_tracker_data, pc, call, turns, request, ext_writes, visited, archive, GAME_STATE, PLAYERS_SID_MAP, threads>>

(***************************************************************************)
(* SpecConstruct: the session constructed on every roster of up to         *)
(* MaxCreatures living creatures with every set of records that load, and  *)
(* asked for its state.                                                    *)
(***************************************************************************)
ConstructDocs ==
    {Doc(cs, <<>>, <<>>, <<>>) :
        cs \in UNION {RostersOver(names, {<<"alive">>}) :
                        names \in {ns \in SUBSET Range(Universe) :
                                      Cardinality(ns) <= MaxCreatures}}}

InitConstruct ==
    \E loaded \in BOOLEAN, doc \in ConstructDocs :
       \E files \in SUBSET Range([i \in 1..Len(doc.creatures) |-> doc.creatures[i].name]) :
          /\ ~loaded => (doc.creatures = <<>>)
          /\ Constructed(Construct(loaded, doc, files))
          /\ call = [op |-> "construct", loaded |-> loaded, creatures |-> doc.creatures,
                     files |-> files]

NextConstruct == GetState

SpecConstruct == InitConstruct /\ [][NextConstruct]_vars

\* the creatures of the types ts whose record or template did not load
MissingOfTypes(ts) ==
    {i \in 1..Len(call.creatures) :
        call.creatures[i].type \in ts /\ call.creatures[i].name \notin call.files}

\* C15: after construction the session is inactive exactly when the encounter
\* document did not load, or the record of a player is missing, or the monster
\* template of an enemy is missing; a missing npc record alone never makes it inactive.
C15_InactiveIffLoadFailed ==
    call.op = "construct" =>
        (~is_active <=> (~call.loaded \/ MissingOfTypes({"player", "enemy"}) # {}))

\* a session that is active although the record of its npc did not load, and says so
C15_Witness ==
    /\ call.op = "construct"
    /\ MissingOfTypes({"npc"}) # {}
    /\ HasType(call.creatures, "player")
    /\ HasType(call.creatures, "enemy")
    /\ is_active
    /\ last.op = "get_state"
    /\ last.kind = "state"

(***************************************************************************)
(* The persisted encounter document is written from outside the session:   *)
(* the external mutator sets a creature's status.                          *)
(***************************************************************************)
ExternalStatusUpdate ==
    /\ store # NoDoc
    /\ ext_writes < MaxExternalWrites
    /\ pc = "validate" => request.attempt = 0
    /\ ext_writes' = ext_writes + 1
    /\ \E n \in NamesOfTypes(store, Types), st \in SessionStatuses :
           /\ store' = update_encounter(store, n, st)
           /\ store' # store
    /\ UNCHANGED <<encounter_data, current_turn_character, is_active, conversation_history,
                   party_tracker_data, pc, call, last, turns, request, visited, archive, GAME_STATE, PLAYERS_SID_MAP, threads>>

Next ==
    \/ \E name \in CallerNames : PlayerTurnInactive(name)
    \/ \E name \in CallerNames : PlayerTurnNotOwner(name)
    \/ \E name \in CallerNames : PlayerTurnBegin(name)
    \/ AiTurnsInactive
    \/ AiTurnsCall
    \/ AiLoopReturn
    \/ AiLoopTurn
    \/ Attempt
    \/ GetState
    \/ ExternalStatusUpdate

Spec == Init /\ [][Next]_vars

(***************************************************************************)
(* SpecReload: the sessions with an encounter file that can be removed or  *)
(* made unparseable from outside.  safe_json_load then answers None, which *)
(* _refresh_conversation_history assigns to self.encounter_data; the next  *)
(* read of the encounter, outside every try, raises AttributeError out of  *)
(* the API call.                                                           *)
(***************************************************************************)
RaisedResult == [kind |-> "raised", is_active |-> TRUE, current_round |-> 0,
                 current_turn |-> None]

\* the encounter file is deleted or overwritten with what no parser reads
ExternalRemove ==
    /\ store # NoDoc
    /\ ext_writes < MaxExternalWrites
    /\ pc = "validate" => request.attempt = 0
    /\ store' = NoDoc
    /\ ext_writes' = ext_writes + 1
    /\ UNCHANGED <<encounter_data, current_turn_character, is_active, conversation_history,
                   party_tracker_data, pc, call, last, turns, request, visited, archive, GAME_STATE, PLAYERS_SID_MAP, threads>>

\* process_player_turn when the reload finds no document: line 467 assigns None and
\* line 477 raises
PlayerTurnRaises(name) ==
    /\ pc = "idle"
    /\ is_active
    /\ name = current_turn_character
    /\ store = NoDoc
    /\ encounter_data' = NoDoc
    /\ last' = Returned("player", RaisedResult, NewCall("player", name))
    /\ UNCHANGED <<store, current_turn_character, is_active, conversation_history,
                   party_tracker_data, pc, call, turns, request, ext_writes, visited, archive, GAME_STATE, PLAYERS_SID_MAP, threads>>

\* process_ai_turns on a session whose encounter_data is None: line 831 raises when
\* the loop is entered, line 274 when it is not
AiLoopRaises ==
    /\ pc = "ai_loop"
    /\ encounter_data = NoDoc
    /\ last' = Returned("ai", RaisedResult, call)
    /\ pc' = "idle"
    /\ call' = NoCall
    /\ UNCHANGED <<encounter_data, store, current_turn_character, is_active,
                   conversation_history, party_tracker_data, turns, request, ext_writes,
                   visited, archive, GAME_STATE, PLAYERS_SID_MAP, threads>>

\* get_current_combat_state on such a session: line 274 raises
GetStateRaises ==
    /\ pc = "idle"
    /\ is_active
    /\ encounter_data = NoDoc
    /\ last' = Returned("get_state", RaisedResult, NewCall("get_state", None))
    /\ UNCHANGED <<encounter_data, store, current_turn_character, is_active,
                   conversation_history, party_tracker_data, pc, call, turns, request,
                   ext_writes, visited, archive, GAME_STATE, PLAYERS_SID_MAP, threads>>

ReloadDocs ==
    {Doc(<<SessionCreature("Hero", a), SessionCreature("Goblin", b)>>, <<>>, <<>>, <<>>) :
        a \in SessionStatuses, b \in SessionStatuses}

InitReload ==
    /\ \E doc \in ReloadDocs :
          Constructed(Construct(TRUE, doc, NamesOfTypes(doc, Types)))
    /\ call = NoCall

NextReload ==
    \/ Next
    \/ ExternalRemove
    \/ \E name \in CallerNames \cup {current_turn_character} : PlayerTurnRaises(name)
    \/ AiLoopRaises
    \/ GetStateRaises

SpecReload == InitReload /\ [][NextReload]_vars

(***************************************************************************)
(* SpecResponse: an accepted response with up to MaxActions actions is     *)
(* processed and the turn advanced, lines 436-439 of process_player_turn.  *)
(***************************************************************************)
ResponseDocs ==
    {Doc(<<SessionCreature("Hero", "alive"), SessionCreature("Goblin", "alive")>>,
         <<1>>, <<>>, <<>>),
     Doc(<<SessionCreature("Hero", "alive"), SessionCreature("Goblin", "alive"),
           SessionCreature("Mira", "alive")>>, <<>>, <<>>, <<>>)}

ResponsesUpTo(doc, n) ==
    {Response(as, cr) : as \in SeqsUpTo(SessionActionsFor(doc), n),
                        cr \in {<<>>, <<MaxRound>>}}

InitResponse ==
    /\ \E doc \in ResponseDocs :
          /\ Constructed(Construct(TRUE, doc, NamesOfTypes(doc, Types)))
          /\ \E r \in ResponsesUpTo(doc, MaxActions) :
                call = [op |-> "response", response |-> r]

ProcessResponse ==
    /\ call.op = "response"
    /\ last = NoResult
    /\ LET p == process_ai_response(encounter_data, store, call.response)
           adv == advance_turn(p.mem, current_turn_character)
       IN /\ encounter_data' = adv.doc
          /\ store' = p.store
          /\ current_turn_character' = adv.current
          /\ last' = [op |-> "response", applied |-> p.applied, saves |-> p.saves,
                      mem |-> p.mem, from |-> current_turn_character]
    /\ UNCHANGED <<is_active, conversation_history, party_tracker_data, pc, call, turns,
                   request, ext_writes, visited, archive, GAME_STATE, PLAYERS_SID_MAP, threads>>

NextResponse == ProcessResponse

SpecResponse == InitResponse /\ [][NextResponse]_vars

(***************************************************************************)
(* SpecState: get_current_combat_state called on an active or an ended     *)
(* session over every roster of up to MaxCreatures creatures of any        *)
(* initiative and status.                                                  *)
(***************************************************************************)
InitState ==
    /\ \E cs \in AdvanceRosters, active \in BOOLEAN :
          /\ encounter_data = Doc(cs, <<>>, <<>>, <<>>)
          /\ store = Doc(cs, <<>>, <<>>, <<>>)
          /\ is_active = active
          /\ current_turn_character = determine_first_turn(Doc(cs, <<>>, <<>>, <<>>))
    /\ conversation_history = InitialHistory(FALSE)
    /\ party_tracker_data = [activeCombatEncounter |-> "E1", lastCompletedEncounter |-> ""]
    /\ pc = "idle"
    /\ call = NoCall
    /\ last = NoResult
    /\ turns = 0
    /\ request = NoRequest
    /\ ext_writes = 0
    /\ visited = <<>>
    /\ archive = <<>>
    /\ ServerIdle

GetStateCall ==
    /\ last = NoResult
    /\ last' = [op |-> "get_state",
                result |-> get_current_combat_state(encounter_data, current_turn_character,
                                                    is_active)]
    /\ UNCHANGED <<encounter_data, store, current_turn_character, is_active,
                   conversation_history, party_tracker_data, pc, call, turns, request,
                   ext_writes, visited, archive, GAME_STATE, PLAYERS_SID_MAP, threads>>

NextState == GetStateCall

SpecState == InitState /\ [][NextState]_vars

(***************************************************************************)
(* SpecFallback: _advance_turn called once on every roster of up to        *)
(* MaxCreatures creatures, the turn pointer on a living creature, on a     *)
(* dead one, on a name the list does not hold, or None.                    *)
(***************************************************************************)
InitFallback ==
    /\ \E cs \in AdvanceRosters, cr \in RoundFields, cur \in {<<>>, <<2>>} :
           /\ encounter_data = Doc(cs, cr, cur, <<>>)
           /\ store = Doc(cs, cr, cur, <<>>)
           /\ \E start \in NamesOfTypes(Doc(cs, cr, cur, <<>>), Types) \cup {None, "Hero"} :
                  /\ current_turn_character = start
                  /\ call = [op |-> "advance_once", start |-> start]
    /\ is_active = TRUE
    /\ conversation_history = <<>>
    /\ party_tracker_data = [activeCombatEncounter |-> "E1", lastCompletedEncounter |-> ""]
    /\ pc = "idle"
    /\ last = NoResult
    /\ turns = 0
    /\ request = NoRequest
    /\ ext_writes = 0
    /\ visited = <<>>
    /\ archive = <<>>
    /\ ServerIdle

AdvanceOnce ==
    /\ call.op = "advance_once"
    /\ last = NoResult
    /\ LET r == advance_turn(encounter_data, current_turn_character)
       IN /\ encounter_data' = r.doc
          /\ current_turn_character' = r.current
    /\ last' = [op |-> "advance_once"]
    /\ UNCHANGED <<store, is_active, conversation_history, party_tracker_data, pc, call,
                   turns, request, ext_writes, visited, archive, GAME_STATE, PLAYERS_SID_MAP, threads>>

NextFallback == AdvanceOnce

SpecFallback == InitFallback /\ [][NextFallback]_vars

(***************************************************************************)
(* SpecTracker: the sessions on three encounters, given a party tracker    *)
(* that names the encounter, names none, or has no activeCombatEncounter   *)
(* key, after an encounter E0 completed before.                            *)
(***************************************************************************)
TrackerDocs ==
    {Doc(<<SessionCreature("Hero", "alive"), SessionCreature("Goblin", "alive")>>,
         <<>>, <<>>, <<>>),
     Doc(<<SessionCreature("Mira", "alive"), SessionCreature("Goblin", "alive")>>,
         <<>>, <<>>, <<>>),
     Doc(<<>>, <<>>, <<>>, <<>>)}

Trackers ==
    [activeCombatEncounter : {None, "", "E1"}, lastCompletedEncounter : {"E0"}]

InitTracker ==
    /\ \E doc \in TrackerDocs, pt \in Trackers :
          ConstructedWith(Construct(TRUE, doc, NamesOfTypes(doc, Types)), pt)
    /\ call = NoCall

SpecTracker == InitTracker /\ [][Next]_vars

(***************************************************************************)
(* SpecConcurrent: the server's combat_action events.  on_combat_action    *)
(* starts one background task per event (async_mode 'threading'); each     *)
(* task runs handle_combat_action_logic and in it process_player_turn on   *)
(* the one CombatService of the game, which takes no lock.  A task can be  *)
(* preempted between the ownership check, the building of the prompt and   *)
(* the oracle's answer.  Here pc and call are functions of the task.       *)
(***************************************************************************)
Tasks == 1..MaxTasks

\* _get_ai_response_with_validation as a whole, given the outcomes of its attempts
RECURSIVE ValidatorRun(_, _, _)
ValidatorRun(req, hist, outcomes) ==
    IF outcomes = <<>> \/ req.status # "running"
    THEN [request |-> req, history |-> hist]
    ELSE LET v == validation_attempt(req, hist, Head(outcomes))
         IN ValidatorRun(v.request, v.history, Tail(outcomes))

\* the oracle accepted at once, or rejected at every attempt
TaskOutcomes == {<<"accept">>, [i \in 1..max_retries |-> "reject"]}

ConcurrentDocs ==
    {Doc(<<SessionCreature("Hero", "alive"), SessionCreature("Goblin", "alive")>>,
         <<>>, <<>>, <<>>),
     Doc(<<SessionCreature("Goblin", "alive"), SessionCreature("Bob", "alive"),
           SessionCreature("Alice", "alive")>>, <<1>>, <<>>, <<>>)}

InitConcurrent ==
    /\ \E doc \in ConcurrentDocs :
          LET c == Construct(TRUE, doc, NamesOfTypes(doc, Types))
          IN /\ store = c.store
             /\ encounter_data = c.encounter_data
             /\ is_active = c.is_active
             /\ conversation_history = c.conversation_history
             /\ current_turn_character = c.current_turn_character
    /\ party_tracker_data = [activeCombatEncounter |-> "E1", lastCompletedEncounter |-> ""]
    /\ pc = [t \in Tasks |-> "none"]
    /\ call = [t \in Tasks |-> NoCall]
    /\ last = NoResult
    /\ turns = 0
    /\ request = NoRequest
    /\ ext_writes = 0
    /\ visited = <<>>
    /\ archive = <<>>
    /\ ServerIdle

\* on_combat_action: the event of a connected player starts a background task
OnCombatAction(t, name) ==
    /\ pc[t] = "none"
    /\ pc' = [pc EXCEPT ![t] = "dispatched"]
    /\ call' = [call EXCEPT ![t] = [op |-> "player", player |-> name]]
    /\ UNCHANGED <<encounter_data, store, current_turn_character, is_active,
                   conversation_history, party_tracker_data, last, turns, request,
                   ext_writes, visited, archive, GAME_STATE, PLAYERS_SID_MAP, threads>>

\* process_player_turn, its first lines: the two checks
TaskOwnershipCheck(t) ==
    /\ pc[t] = "dispatched"
    /\ IF ~is_active
       THEN /\ pc' = [pc EXCEPT ![t] = "returned"]
            /\ last' = [op |-> "player", task |-> t, kind |-> "error_inactive"]
       ELSE IF call[t].player # current_turn_character
       THEN /\ pc' = [pc EXCEPT ![t] = "returned"]
            /\ last' = [op |-> "player", task |-> t, kind |-> "error_not_turn"]
       ELSE /\ pc' = [pc EXCEPT ![t] = "checked"]
            /\ UNCHANGED last
    /\ UNCHANGED <<encounter_data, store, current_turn_character, is_active,
                   conversation_history, party_tracker_data, call, turns, request,
                   ext_writes, visited, archive, GAME_STATE, PLAYERS_SID_MAP, threads>>

\* process_player_turn up to the call of the validator: the reload, the prerolls
\* and the prompt
TaskPrompt(t) ==
    /\ pc[t] = "checked"
    /\ \E gen \in GeneratedRolls(RoundOf(store)) :
          LET pr == get_prerolls_for_round(store, RoundOf(store), gen)
          IN /\ encounter_data' = pr.doc
             /\ store' = IF pr.saved THEN pr.doc ELSE store
    /\ conversation_history' = Append(clean_old_dm_notes(conversation_history), PromptEntry)
    /\ pc' = [pc EXCEPT ![t] = "oracle"]
    /\ UNCHANGED <<current_turn_character, is_active, party_tracker_data, call, last,
                   turns, request, ext_writes, visited, archive, GAME_STATE, PLAYERS_SID_MAP, threads>>

\* the validator's run and the rest of process_player_turn; visited collects the
\* moves of the turn pointer
TaskFinish(t) ==
    /\ pc[t] = "oracle"
    /\ pc' = [pc EXCEPT ![t] = "returned"]
    /\ \E outcomes \in TaskOutcomes, r \in SessionResponsesFor(encounter_data) :
          LET v == ValidatorRun(NewRequest(conversation_history), conversation_history,
                                outcomes)
          IN IF v.request.status = "failed"
             THEN /\ r = Response(<<>>, <<>>)
                  /\ conversation_history' = v.history
                  /\ last' = [op |-> "player", task |-> t, kind |-> "error_ai"]
                  /\ UNCHANGED <<encounter_data, store, current_turn_character, is_active,
                                 party_tracker_data, visited, archive, GAME_STATE, PLAYERS_SID_MAP, threads>>
             ELSE LET p == process_ai_response(encounter_data, store, r)
                      adv == advance_turn(p.mem, current_turn_character)
                      ended == check_combat_ended(adv.doc.creatures)
                  IN /\ encounter_data' = adv.doc
                     /\ store' = p.store
                     /\ current_turn_character' = adv.current
                     /\ conversation_history' = v.history
                     /\ is_active' = ~ended
                     /\ party_tracker_data' = IF ended THEN end_combat(party_tracker_data)
                                              ELSE party_tracker_data
                     /\ UNCHANGED server
                     /\ archive' = IF ended THEN archive \o end_combat_calls(is_active)
                                   ELSE archive
                     /\ visited' = Append(visited, [task |-> t, player |-> call[t].player,
                                                    from |-> current_turn_character,
                                                    to |-> adv.current])
                     /\ last' = [op |-> "player", task |-> t,
                                 kind |-> IF ended THEN "inactive" ELSE "state"]
    /\ UNCHANGED <<call, turns, request, ext_writes>>

NextConcurrent ==
    \/ \E t \in Tasks, name \in CallerNames : OnCombatAction(t, name)
    \/ \E t \in Tasks : TaskOwnershipCheck(t)
    \/ \E t \in Tasks : TaskPrompt(t)
    \/ \E t \in Tasks : TaskFinish(t)

SpecConcurrent == InitConcurrent /\ [][NextConcurrent]_vars

(***************************************************************************)
(* SpecRound: whole turns, one step each, with the creatures that acted    *)
(* since the last round increment kept in visited.  The statuses change    *)
(* through writes to the persisted document, which the reload at the start *)
(* of process_player_turn brings into the session.  The responses carry no *)
(* combat_round, so the round changes by _advance_turn only.               *)
(***************************************************************************)
RoundDocs ==
    {Doc(<<SessionCreature("Hero", "alive"), SessionCreature("Goblin", "alive")>>,
         <<1>>, <<>>, <<>>),
     Doc(<<SessionCreature("Goblin", "alive"), SessionCreature("Bob", "alive"),
           SessionCreature("Alice", "alive")>>, <<1>>, <<>>, <<>>)}

RoundResponsesFor(doc) == {r \in SessionResponsesFor(doc) : r.combat_round = <<>>}

InitRound ==
    /\ \E doc \in RoundDocs :
          Constructed(Construct(TRUE, doc, NamesOfTypes(doc, Types)))
    /\ call = NoCall

\* the end of a turn: lines 436-444 of process_player_turn, 844-852 of
\* process_ai_turns; mem and st are the encounter in memory and in the store
\* after the response was processed
RoundTurnEnds(actor, mem, st, hist, idle_after) ==
    LET adv == advance_turn(mem, current_turn_character)
        ended == check_combat_ended(adv.doc.creatures)
        wrapped == adv.doc.combat_round # mem.combat_round
    IN /\ encounter_data' = adv.doc
       /\ store' = st
       /\ current_turn_character' = adv.current
       /\ conversation_history' = hist
       /\ is_active' = ~ended
       /\ party_tracker_data' = IF ended THEN end_combat(party_tracker_data)
                                ELSE party_tracker_data
       /\ UNCHANGED server
       /\ archive' = IF ended THEN archive \o end_combat_calls(is_active) ELSE archive
       /\ pc' = IF ended \/ idle_after THEN "idle" ELSE pc
       /\ visited' = IF wrapped THEN <<>> ELSE Append(visited, actor)
       /\ last' = [op |-> "turn", actor |-> actor, wrapped |-> wrapped,
                   skipped |-> IF wrapped
                               THEN LivingNames(adv.doc.creatures)
                                        \ (Range(visited) \cup {actor})
                               ELSE {}]

\* process_player_turn as a whole
RoundPlayerTurn(name) ==
    /\ pc = "idle"
    /\ is_active
    /\ name = current_turn_character
    /\ store # NoDoc
    /\ turns < MaxTurns
    /\ turns' = turns + 1
    /\ \E synced \in SyncOutcomes(store, ext_writes < MaxExternalWrites) :
         \E gen \in GeneratedRolls(RoundOf(synced)), outcomes \in TaskOutcomes :
           LET pr == get_prerolls_for_round(synced, RoundOf(synced), gen)
               st == IF pr.saved THEN pr.doc ELSE synced
               hist == Append(clean_old_dm_notes(conversation_history), PromptEntry)
               v == ValidatorRun(NewRequest(hist), hist, outcomes)
           IN /\ ext_writes' = IF synced = store THEN ext_writes ELSE ext_writes + 1
              /\ IF v.request.status = "failed"
                 THEN /\ encounter_data' = pr.doc
                      /\ store' = st
                      /\ conversation_history' = v.history
                      /\ last' = [op |-> "turn_failed", actor |-> name]
                      /\ UNCHANGED <<current_turn_character, is_active, party_tracker_data,
                                     pc, visited, archive, GAME_STATE, PLAYERS_SID_MAP, threads>>
                 ELSE \E r \in RoundResponsesFor(pr.doc) :
                         LET p == process_ai_response(pr.doc, st, r)
                         IN RoundTurnEnds(name, p.mem, p.store, v.history, TRUE)
    /\ UNCHANGED <<call, request>>

\* one pass of the loop of process_ai_turns, with _process_ai_turn
RoundAiTurn ==
    /\ pc = "ai_loop"
    /\ encounter_data # NoDoc
    /\ AiLoopContinues
    /\ turns < MaxTurns
    /\ turns' = turns + 1
    /\ \E gen \in GeneratedRolls(RoundOf(encounter_data)), outcomes \in TaskOutcomes :
           LET pr == get_prerolls_for_round(encounter_data, RoundOf(encounter_data), gen)
               st == IF pr.saved THEN pr.doc ELSE store
               hist == Append(conversation_history, PromptEntry)
               v == ValidatorRun(NewRequest(hist), hist, outcomes)
           IN IF v.request.status = "failed"
              THEN RoundTurnEnds(current_turn_character, pr.doc, st, v.history, FALSE)
              ELSE \E r \in RoundResponsesFor(pr.doc) :
                      LET p == process_ai_response(pr.doc, st, r)
                      IN RoundTurnEnds(current_turn_character, p.mem, p.store, v.history,
                                       FALSE)
    /\ UNCHANGED <<call, request, ext_writes>>

NextRound ==
    \/ \E name \in CallerNames : RoundPlayerTurn(name)
    \/ AiTurnsCall
    \/ AiLoopReturn
    \/ RoundAiTurn
    \/ ExternalStatusUpdate

SpecRound == InitRound /\ [][NextRound]_vars

\* C32: between two consecutive round increments every creature that stays alive gets
\* exactly one turn: the creature whose turn it is has not acted since the last
\* increment, and when the round is incremented no living creature was left out;
\* also when the creature that held the turn is found dead as the turn is advanced.
C32_OneTurnPerRound ==
    /\ (is_active /\ encounter_data # NoDoc) =>
           \A i \in 1..Len(visited) : visited[i] # current_turn_character
    /\ (last.op = "turn" /\ last.wrapped) => last.skipped = {}

\* the tasks that passed the ownership check and have not returned
InFlight == {t \in Tasks : pc[t] \in {"checked", "oracle"}}

\* C18: at any instant at most one combat_action task has passed the ownership check
\* and is running the prompt/validate/apply/advance sequence, and every turn that is
\* applied and advanced is the turn of the creature the pointer names at that moment
\* (no turn is processed twice, the pointer is not advanced twice for one turn).
C18_OneTurnInFlight ==
    /\ Cardinality(InFlight) <= 1
    /\ \A i \in 1..Len(visited) : visited[i].from = visited[i].player

(***************************************************************************)
(* SpecValidator: one turn request of a session, the oracle free to fail   *)
(* or be rejected in any way at every attempt.                             *)
(***************************************************************************)
AttemptAny ==
    \E outcome \in Outcomes : \E r \in AnswersFor(outcome) : AttemptWith(outcome, r)

NextValidator ==
    \/ \E name \in CallerNames : turns = 0 /\ PlayerTurnBegin(name)
    \/ turns = 0 /\ AiTurnsCall
    \/ turns = 0 /\ AiLoopTurn
    \/ AiLoopReturn
    \/ AttemptAny

SpecValidator == Init /\ [][NextValidator]_vars

(***************************************************************************)
(* The properties.                                                         *)
(***************************************************************************)
\* the number of entries of kind k that the running or last request appended
AppendedOfKind(ks) ==
    Cardinality({i \in (request.base + 1)..Len(conversation_history) :
                    conversation_history[i] \in ks})

CurrentIsDead ==
    /\ encounter_data # NoDoc
    /\ IndexOfName(encounter_data.creatures, current_turn_character) # 0
    /\ IsDead(CreatureNamed(encounter_data.creatures, current_turn_character))

\* C2: in every state of an active session, from construction on,
\* current_turn_character names no creature whose status is 'dead' in any letter case.
C2_CurrentNeverDead == is_active => ~CurrentIsDead

\* a step on which _advance_turn wrapped from the last living creature to the first
WrapStep ==
    LET alive == AliveSorted(encounter_data'.creatures)
    IN /\ pc = "validate"
       /\ request'.status \in {"accepted", "failed"}
       /\ alive # <<>>
       /\ current_turn_character = alive[Len(alive)].name
       /\ current_turn_character' = alive[1].name

\* C3: the round never decreases, and it changes only by +1 and only when the turn
\* wraps from the last living creature to the first; no accepted response and no
\* reload from the document store lowers it or raises it by more than 1.
C3_RoundMonotone ==
    [][(encounter_data # NoDoc /\ encounter_data' # NoDoc
            /\ RoundOf(encounter_data') # RoundOf(encounter_data))
        => (RoundOf(encounter_data') = RoundOf(encounter_data) + 1 /\ WrapStep)]_vars

\* C5: once is_active is false it stays false, process_player_turn and
\* process_ai_turns return the inactive error, get_current_combat_state the inactive
\* marker, and none of them changes the round, the turn pointer, the transcript or
\* the persisted encounter (which only a write from outside changes).
C5_InactiveTerminal ==
    [][~is_active =>
          /\ ~is_active'
          /\ UNCHANGED <<encounter_data, current_turn_character, conversation_history,
                         party_tracker_data, pc>>
          /\ store' # store => ext_writes' # ext_writes
          /\ last' # last =>
                \/ last'.op \in {"player", "ai"} /\ last'.kind = "error_inactive"
                \/ last'.op = "get_state" /\ last'.kind = "inactive"]_vars

\* a session that ended through a turn has since refused a player turn
C5_Witness ==
    /\ ~is_active
    /\ party_tracker_data.lastCompletedEncounter = "E1"
    /\ last.op = "player"
    /\ last.kind = "error_inactive"

\* the name process_player_turn is called with on this step, None when the step is
\* no call of it
PlayerCalled ==
    IF pc = "idle" /\ pc' = "validate" /\ call'.op = "player" THEN <<call'.player>>
    ELSE IF pc = "idle" /\ last' # last /\ last'.op = "player" THEN <<last'.player>>
    ELSE <<>>

\* C6: process_player_turn called on an active session with a name that is not
\* current_turn_character returns the turn-ownership error and changes neither the
\* round, the turn pointer, the transcript, the in-memory or the persisted encounter,
\* and starts no request to the oracle.
C6_OwnershipRejection ==
    [][(is_active /\ PlayerCalled # <<>> /\ PlayerCalled[1] # current_turn_character)
        => /\ last'.op = "player"
           /\ last'.kind = "error_not_turn"
           /\ UNCHANGED <<encounter_data, store, current_turn_character, is_active,
                          conversation_history, party_tracker_data, pc, turns, request>>]_vars

\* Bob was refused while it was Alice's turn
C6_Witness ==
    /\ is_active
    /\ last.op = "player"
    /\ last.kind = "error_not_turn"
    /\ last.player = "Bob"
    /\ current_turn_character = "Alice"

\* C13: in every reachable state preroll_cache.round is at most the encounter's
\* current round.
C13_CacheRoundBound ==
    (encounter_data # NoDoc /\ encounter_data.preroll_cache # <<>>) =>
        encounter_data.preroll_cache[1].round <= RoundOf(encounter_data)

\* a step on which a turn was advanced: the validator's request finished, in
\* process_player_turn with a response, in process_ai_turns either way
TurnAdvanced ==
    /\ pc = "validate"
    /\ pc' # "validate"
    /\ ~(call.op = "player" /\ request'.status = "failed")

C17_CurrentInList ==
    is_active =>
        /\ encounter_data # NoDoc
        /\ current_turn_character # None
        /\ IndexOfName(encounter_data.creatures, current_turn_character) # 0

\* C19: whenever no API call is running on an active session, the round of the
\* persisted encounter is the round of the in-memory encounter: the increment made by
\* _advance_turn on a wrap was written to the store before the call returned, so the
\* reload of the next process_player_turn observes it.
C19_RoundPersisted ==
    (pc = "idle" /\ is_active /\ encounter_data # NoDoc /\ store # NoDoc) =>
        RoundOf(store) = RoundOf(encounter_data)

\* C20: when process_ai_turns returns on a session that was active, either the session
\* has ended or current_turn_character names a creature of type player.
C20_AiTurnsStopAtPlayer ==
    (pc = "idle" /\ last.op = "ai" /\ last.kind # "error_inactive") =>
        \/ ~is_active
        \/ /\ IndexOfName(encounter_data.creatures, current_turn_character) # 0
           /\ CreatureNamed(encounter_data.creatures, current_turn_character).type = "player"

\* C20 on the sessions whose creature list is not empty
C20_ExceptEmptyRoster ==
    (pc = "idle" /\ last.op = "ai" /\ last.kind # "error_inactive"
        /\ encounter_data.creatures # <<>>) =>
        \/ ~is_active
        \/ /\ IndexOfName(encounter_data.creatures, current_turn_character) # 0
           /\ CreatureNamed(encounter_data.creatures, current_turn_character).type = "player"

\* C7 as stated: when every attempt is rejected by the rule checker, the request
\* makes max_retries oracle calls, fails, and has appended max_retries corrective
\* entries.
C7_AsStated ==
    (request.status = "failed" /\ request.only_rejections) =>
        /\ request.oracle_calls = max_retries
        /\ AppendedOfKind({FeedbackEntry, JsonNoteEntry}) = max_retries

\* C7 amended: when every attempt is rejected by the rule checker, the request makes
\* exactly max_retries oracle calls, fails, and has appended exactly max_retries - 1
\* corrective entries: the last rejected attempt appends none.
C7_RetryBound ==
    (request.status # "none" /\ request.only_rejections /\ request.attempt = max_retries) =>
        /\ request.status = "failed"
        /\ request.oracle_calls = max_retries
        /\ AppendedOfKind({FeedbackEntry}) = max_retries - 1
        /\ AppendedOfKind({FeedbackEntry, JsonNoteEntry, AssistantEntry}) = max_retries - 1

C7_Witness ==
    /\ request.status = "failed"
    /\ request.only_rejections
    /\ request.attempt = max_retries

\* C8: when the retry bound is exhausted in process_player_turn, the call returns an
\* error, no action was applied, the round and the turn pointer are what they were
\* before the call, and the session is still active.
C8_PlayerExhaustion ==
    (last.op = "player" /\ last.kind = "error_ai") =>
        /\ last.applied = 0
        /\ RoundOf(encounter_data) = last.round0
        /\ current_turn_character = last.current0
        /\ is_active

\* C8 but for the round: checked to hold
C8_ExceptRound ==
    (last.op = "player" /\ last.kind = "error_ai") =>
        /\ last.applied = 0
        /\ current_turn_character = last.current0
        /\ is_active

\* C9: when the retry bound is exhausted for a non-player creature inside
\* process_ai_turns, the call returns an explicit error rather than a state snapshot.
C9_AiFailureSurfaced ==
    (last.op = "ai" /\ last.failed > 0) => last.kind = "error_ai"

\* C10: a request that returns a response has appended exactly one assistant entry,
\* the accepted response, as its last entry; a request that is running or has failed
\* has appended none.
C10_AssistantOnce ==
    /\ request.status = "accepted" =>
          /\ AppendedOfKind({AssistantEntry}) = 1
          /\ conversation_history[Len(conversation_history)] = AssistantEntry
    /\ request.status \in {"running", "failed"} => AppendedOfKind({AssistantEntry}) = 0

\* a response was accepted after two or more attempts were rejected or malformed
C10_Witness ==
    /\ request.status = "accepted"
    /\ request.attempt >= 3
    /\ AppendedOfKind({FeedbackEntry}) >= 1
    /\ AppendedOfKind({JsonNoteEntry}) >= 1

\* the non-player turns process_ai_turns has processed in the running invocation: one
\* prompt entry was appended for each
AiTurnsProcessed ==
    Cardinality({i \in (call.hist0 + 1)..Len(conversation_history) :
                    conversation_history[i] = PromptEntry})

LivingNonPlayers(creatures) ==
    {i \in 1..Len(creatures) : creatures[i].type # "player" /\ ~IsDead(creatures[i])}

\* C21: an invocation of process_ai_turns processes at most as many non-player turns
\* as there are living non-player creatures: once it has processed that many, its loop
\* does not go on to another turn but returns; so on every encounter, one without any
\* player included.
C21_AiTurnsBounded ==
    (pc = "ai_loop" /\ AiLoopContinues) =>
        AiTurnsProcessed < Cardinality(LivingNonPlayers(encounter_data.creatures))

\* C21 on the encounters that hold a living player, the loop entered on a living
\* creature
C21_ExceptNoLivingPlayer ==
    (pc = "ai_loop" /\ AiLoopContinues /\ (AiTurnsProcessed = 0 => ~CurrentIsDead)
        /\ \E i \in 1..Len(encounter_data.creatures) :
              encounter_data.creatures[i].type = "player"
              /\ ~IsDead(encounter_data.creatures[i])) =>
        AiTurnsProcessed < Cardinality(LivingNonPlayers(encounter_data.creatures))

\* C22: in the Hero/Goblin encounter, when the persisted document says the Goblin is
\* dead at the moment process_ai_turns is called for the Goblin's turn (the status was
\* written to the store after the player's turn), the call ends the session: it
\* returns with is_active false.
C22_StoreDeathEndsAiTurns ==
    (pc = "idle" /\ last.op = "ai" /\ last.kind # "error_inactive"
        /\ NamesOfTypes(encounter_data, Types) = {"Hero", "Goblin"}
        /\ last.current0 = "Goblin" /\ last.store_ended0) =>
        ~is_active

\* C23: process_player_turn and process_ai_turns never raise out of the call: every
\* failure of a turn, the encounter document being absent or unparseable at the reload
\* included, is returned as a structured result.
C23_NoRaisePastTurn ==
    last.op \in {"player", "ai"} => last.kind # "raised"

\* the encounter of one dead player and one living enemy, in this order
DeadPlayerLivingEnemy ==
    LET cs == encounter_data.creatures
    IN /\ Len(cs) = 2
       /\ cs[1].type = "player" /\ IsDead(cs[1])
       /\ cs[2].type = "enemy" /\ ~IsDead(cs[2])

\* C24 as stated: for an encounter whose creatures are one player with status dead
\* and one enemy with status alive, the end check is false.
C24_AsStated ==
    (last.op = "check_ended" /\ DeadPlayerLivingEnemy) => ~last.value

\* C24 amended: for an encounter whose creatures are one player with status dead and
\* one enemy with status alive, the end check is true: every player is dead.
C24_DeadPlayerEnds ==
    (last.op = "check_ended" /\ DeadPlayerLivingEnemy) => last.value

\* the end check was evaluated on a dead player and an enemy whose status is alive
C24_Witness ==
    /\ last.op = "check_ended"
    /\ DeadPlayerLivingEnemy
    /\ encounter_data.creatures[1].status = <<"dead">>
    /\ encounter_data.creatures[2].status = <<"alive">>

\* the entries of the actions array that name a known action and whose mutator does
\* not raise
Appliable(actions) ==
    {i \in 1..Len(actions) :
        /\ actions[i].dict
        /\ LowerAction(actions[i].action) \in {"updatecharacterinfo", "updateencounter"}
        /\ ~actions[i].throws}

Malformed(actions) == {i \in 1..Len(actions) : ~actions[i].dict}

\* the combat_round of the response was written into the in-memory encounter
RoundOverwritten ==
    call.response.combat_round # <<>> => last.mem.combat_round = call.response.combat_round

\* C25: when the actions of an accepted response are applied, the failure of one
\* action (its mutator raises, or the entry is malformed) is isolated to it: every
\* sibling action is applied, the combat_round of the response is written, the
\* encounter is saved, and the turn advances.
C25_ActionFailureIsolated ==
    last.op = "response" =>
        /\ last.applied = Cardinality(Appliable(call.response.actions))
        /\ RoundOverwritten
        /\ last.saves >= 1
        /\ current_turn_character # last.from

\* C25 for the responses whose entries are all objects: the mutator that raises is
\* isolated
C25_ExceptMalformed ==
    (last.op = "response" /\ Malformed(call.response.actions) = {}) =>
        /\ last.applied = Cardinality(Appliable(call.response.actions))
        /\ RoundOverwritten
        /\ last.saves >= 1
        /\ current_turn_character # last.from

\* C26: processing an accepted response saves the encounter exactly once, whatever the
\* number of its actions, and what is saved is the encounter after the actions were
\* processed and the combat_round of the response written.
C26_SavedOnce ==
    last.op = "response" =>
        /\ last.saves = 1
        /\ RoundOverwritten
        /\ store = last.mem

\* C26 for the responses whose entries are all objects
C26_ExceptMalformed ==
    (last.op = "response" /\ Malformed(call.response.actions) = {}) =>
        /\ last.saves = 1
        /\ RoundOverwritten
        /\ store = last.mem

\* C27: the initiative_order returned by get_current_combat_state holds exactly the
\* creatures whose status is not 'dead' in any letter case, each once, sorted by
\* descending initiative with ascending name as tie-break; on an inactive session the
\* call returns only the inactive marker.
C27_InitiativeOrder ==
    last.op = "get_state" =>
        LET order == last.result.initiative_order
            cs == encounter_data.creatures
        IN IF ~is_active
           THEN last.result.keys = {"is_active"} /\ ~last.result.is_active
           ELSE /\ "initiative_order" \in last.result.keys
                /\ \A i \in 1..Len(order) : order[i] \in Range(cs) /\ ~IsDead(order[i])
                /\ \A k \in 1..Len(cs) :
                      ~IsDead(cs[k]) =>
                          Cardinality({i \in 1..Len(order) : order[i] = cs[k]}) = 1
                /\ \A i \in 1..Len(order) : \A j \in (i + 1)..Len(order) :
                      InOrder(order[i], order[j])

\* the order was returned for a roster with a dead creature and with two living ones
\* of equal initiative that the list holds in descending name order
C27_Witness ==
    /\ last.op = "get_state"
    /\ is_active
    /\ \E k \in 1..Len(encounter_data.creatures) : IsDead(encounter_data.creatures[k])
    /\ Len(last.result.initiative_order) = 2
    /\ last.result.initiative_order[1].initiative = last.result.initiative_order[2].initiative
    /\ last.result.initiative_order #
           SelectSeqOf(encounter_data.creatures,
                       {c \in Range(encounter_data.creatures) : ~IsDead(c)})

\* the living creature that is before every other living creature in
\* (-initiative, name) order
IsFirstLiving(creatures, n) ==
    /\ n \in LivingNames(creatures)
    /\ \A m \in LivingNames(creatures) \ {n} :
          InOrder(CreatureNamed(creatures, n), CreatureNamed(creatures, m))

\* C28: when _advance_turn is called and current_turn_character is not among the
\* living creatures, the current turn becomes the first living creature in
\* (-initiative, name) order and the round is left unchanged; when no creature is
\* alive, current_turn_character and the round are both left unchanged.  (The store
\* holds the document as it was before the call.)
C28_FallbackToFirstLiving ==
    (last.op = "advance_once" /\ call.start \notin LivingNames(store.creatures)) =>
        /\ encounter_data = store
        /\ IF LivingNames(store.creatures) = {}
           THEN current_turn_character = call.start
           ELSE IsFirstLiving(store.creatures, current_turn_character)

\* the creature that held the turn is dead and is not the first of the list; two
\* others are alive, and the one listed last is first in initiative order
C28_Witness ==
    /\ last.op = "advance_once"
    /\ IndexOfName(store.creatures, call.start) # 0
    /\ IsDead(CreatureNamed(store.creatures, call.start))
    /\ Cardinality(LivingNames(store.creatures)) = 2
    /\ current_turn_character = store.creatures[Len(store.creatures)].name
    /\ store.combat_round = <<2>>

\* C29: during the retry loop of one turn request, whatever the oracle does at each
\* attempt, the oracle is called at most max_retries times, one attempt after the
\* other, and between two attempts nothing but the transcript changes: the encounter,
\* current_turn_character, is_active and the persisted document are untouched until a
\* response is accepted.
C29_RetryFrame ==
    [][/\ (request'.status # "none") => request'.oracle_calls <= max_retries
       /\ (pc = "validate" /\ request'.status = "running") =>
             /\ request'.attempt = request.attempt + 1
             /\ request'.oracle_calls = request.oracle_calls + 1
             /\ UNCHANGED <<encounter_data, store, current_turn_character, is_active,
                            party_tracker_data, pc>>]_vars

\* a request is at its last attempt after an exception, an invalid JSON answer and a
\* rejection
C29_Witness ==
    /\ request.status = "running"
    /\ request.attempt = max_retries - 1
    /\ AppendedOfKind({JsonNoteEntry}) >= 1
    /\ AppendedOfKind({FeedbackEntry}) >= 1
    /\ AppendedOfKind({JsonNoteEntry, FeedbackEntry}) < max_retries - 1

\* the session is as its construction left it: no turn was started
JustConstructed ==
    /\ pc = "idle"
    /\ turns = 0
    /\ is_active
    /\ encounter_data # NoDoc
    /\ encounter_data.creatures # <<>>

\* C30: after a successful construction on a non-empty creature list,
\* current_turn_character is the first creature of the initiative order: the living
\* creature with the highest initiative, ties broken by ascending name.
C30_FirstTurnFirstLiving ==
    (JustConstructed /\ LivingNames(encounter_data.creatures) # {}) =>
        IsFirstLiving(encounter_data.creatures, current_turn_character)

\* C30 for the encounters in which no creature is dead at construction
C30_ExceptDeadAtStart ==
    (JustConstructed /\ \A i \in 1..Len(encounter_data.creatures) :
                            ~IsDead(encounter_data.creatures[i])) =>
        IsFirstLiving(encounter_data.creatures, current_turn_character)

\* C31: a change that an updateEncounter action wrote to the persisted encounter
\* document is still in the document store when the processing of the response is
\* over: the save of the in-memory encounter at the end of _process_ai_response does
\* not overwrite it.  (Stated for the responses whose entries are all objects.)
C31_UpdateEncounterSurvives ==
    (last.op = "response" /\ Malformed(call.response.actions) = {}) =>
        \A i \in Appliable(call.response.actions) :
            LET a == call.response.actions[i]
            IN LowerAction(a.action) = "updateencounter" =>
                  CreatureNamed(store.creatures, a.name).status = <<a.status>>

\* C33: process_player_turn processes a turn only for a living creature of type
\* player: while a request of a player turn is with the oracle, a caller that names
\* a creature of the encounter names a living creature of type player.
C33_OnlyLivingPlayers ==
    (pc = "validate" /\ call.op = "player"
        /\ IndexOfName(encounter_data.creatures, call.player) # 0) =>
        /\ CreatureNamed(encounter_data.creatures, call.player).type = "player"
        /\ ~IsDead(CreatureNamed(encounter_data.creatures, call.player))

(***************************************************************************)
(* server.py, the lobby: join_game, disconnect and player_action outside   *)
(* combat.  A thread is a handler or a background task in flight; its sid  *)
(* is the request.sid of the event that started it and joined_as the name  *)
(* PLAYERS_SID_MAP held for that sid when the event arrived.               *)
(***************************************************************************)
MaxLobbyHistory == 2

LobbySids == {"s1", "s2"}

IndexIn(order, name) ==
    IF \E i \in 1..Len(order) : order[i] = name
    THEN CHOOSE i \in 1..Len(order) : order[i] = name /\ \A j \in 1..(i - 1) : order[j] # name
    ELSE 0

\* turn_order[(turn_order.index(name) + 1) % len(turn_order)]
NextInOrder(order, name) == order[(IndexIn(order, name) % Len(order)) + 1]

\* list.remove(name)
RemoveFromOrder(order, name) ==
    LET i == IndexIn(order, name)
    IN IF i = 0 THEN order
       ELSE [j \in 1..(Len(order) - 1) |-> IF j < i THEN order[j] ELSE order[j + 1]]

\* handle_join_game, lines 502-524, after the check of MAX_PLAYERS
join_game_add(gs, map, sid, player_name) ==
    [gs |-> [gs EXCEPT !.connected_players = @ \cup {sid},
                       !.turn_order = IF IndexIn(@, player_name) # 0 THEN @
                                      ELSE Append(@, player_name),
                       !.current_turn_player = IF @ = None THEN player_name ELSE @,
                       !.game_active = TRUE],
     map |-> [map EXCEPT ![sid] = player_name]]

\* handle_join_game
join_game(gs, map, sid, player_name) ==
    IF Cardinality(gs.connected_players) >= MAX_PLAYERS
    THEN [gs |-> gs, map |-> map]
    ELSE join_game_add(gs, map, sid, player_name)

\* handle_disconnect
disconnect(gs, map, sid) ==
    LET player_name == IF map[sid] # None THEN map[sid] ELSE DefaultName(sid)
        order == gs.turn_order
    IN [gs |-> [gs EXCEPT !.connected_players = @ \ {sid},
                          !.current_turn_player =
                              IF @ = player_name /\ IndexIn(order, player_name) # 0
                              THEN NextInOrder(order, player_name)
                              ELSE @,
                          !.turn_order = RemoveFromOrder(order, player_name)],
        map |-> [map EXCEPT ![sid] = None]]

session == <<encounter_data, store, current_turn_character, is_active,
             conversation_history, party_tracker_data, pc, call, turns, request,
             ext_writes, visited, archive>>

NoSession ==
    /\ encounter_data = NoDoc
    /\ store = NoDoc
    /\ current_turn_character = None
    /\ is_active = FALSE
    /\ conversation_history = <<>>
    /\ party_tracker_data = [activeCombatEncounter |-> "", lastCompletedEncounter |-> ""]
    /\ pc = "idle"
    /\ call = NoCall
    /\ turns = 0
    /\ request = NoRequest
    /\ ext_writes = 0
    /\ visited = <<>>
    /\ archive = <<>>

InitLobby ==
    /\ NoSession
    /\ last = NoResult
    /\ ServerIdle

JoinGame(sid, player_name) ==
    /\ LET j == join_game(GAME_STATE, PLAYERS_SID_MAP, sid, player_name)
       IN /\ GAME_STATE' = j.gs
          /\ PLAYERS_SID_MAP' = j.map
    /\ last' = [op |-> "join_game", player |-> player_name]
    /\ UNCHANGED <<session, threads>>

Disconnect(sid) ==
    /\ LET d == disconnect(GAME_STATE, PLAYERS_SID_MAP, sid)
       IN /\ GAME_STATE' = d.gs
          /\ PLAYERS_SID_MAP' = d.map
    /\ last' = [op |-> "disconnect", player |-> None]
    /\ UNCHANGED <<session, threads>>

\* on_player_action_event; the action text is not blank
PlayerActionEvent(sid, player_name) ==
    /\ GAME_STATE.game_active
    /\ sid \in GAME_STATE.connected_players
    /\ Cardinality(threads) < MaxTasks
    /\ Len(GAME_STATE.conversation_history) < MaxLobbyHistory
    /\ threads' = threads \cup {[target |-> "handle_player_action_logic", sid |-> sid,
                                 joined_as |-> PLAYERS_SID_MAP[sid],
                                 player_name |-> player_name, at |-> "start"]}
    /\ UNCHANGED <<session, last, GAME_STATE, PLAYERS_SID_MAP>>

\* handle_player_action_logic outside combat, up to the request to the oracle
PlayerActionBegin(t) ==
    /\ t.target = "handle_player_action_logic"
    /\ t.at = "start"
    /\ ~GAME_STATE.is_in_combat
    /\ IF GAME_STATE.current_turn_player # None
          /\ GAME_STATE.current_turn_player # t.player_name
       THEN /\ threads' = threads \ {t}
            /\ last' = [op |-> "player_action", player |-> t.player_name]
            /\ UNCHANGED GAME_STATE
       ELSE /\ threads' = (threads \ {t}) \cup {[t EXCEPT !.at = "oracle"]}
            /\ GAME_STATE' = [GAME_STATE EXCEPT !.conversation_history = Append(@, "user")]
            /\ UNCHANGED last
    /\ UNCHANGED <<session, PLAYERS_SID_MAP>>

\* the turn change of lines 872-878 and 895-901
turn_change(gs, player_name) ==
    IF gs.turn_order = <<>> THEN gs
    ELSE [gs EXCEPT !.current_turn_player =
                        IF IndexIn(gs.turn_order, player_name) # 0
                        THEN NextInOrder(gs.turn_order, player_name)
                        ELSE gs.turn_order[1]]

\* handle_player_action_logic from the oracle's answer on; the actions of the response
\* start no combat
PlayerActionFinish(t, answered) ==
    /\ t.target = "handle_player_action_logic"
    /\ t.at = "oracle"
    /\ threads' = threads \ {t}
    /\ GAME_STATE' =
          IF answered
          THEN turn_change([GAME_STATE EXCEPT !.conversation_history = Append(@, "assistant")],
                           t.player_name)
          ELSE GAME_STATE
    /\ last' = [op |-> "player_action", player |-> t.player_name]
    /\ UNCHANGED <<session, PLAYERS_SID_MAP>>

NextLobby ==
    \/ \E sid \in LobbySids, n \in PlayerNames : JoinGame(sid, n)
    \/ \E sid \in LobbySids : Disconnect(sid)
    \/ \E sid \in LobbySids, n \in PlayerNames : PlayerActionEvent(sid, n)
    \/ \E t \in threads : PlayerActionBegin(t)
    \/ \E t \in threads, answered \in BOOLEAN : PlayerActionFinish(t, answered)

SpecLobby == InitLobby /\ [][NextLobby]_vars

\* C36: outside combat, after any sequence of join_game and disconnect events,
\* current_turn_player is unset or a member of turn_order.
C36_TurnPlayerInOrder ==
    ~GAME_STATE.is_in_combat =>
        \/ GAME_STATE.current_turn_player = None
        \/ IndexIn(GAME_STATE.turn_order, GAME_STATE.current_turn_player) # 0

\* a thread of handle_player_action_logic that ends in this step
PlayerActionEnds(t) ==
    /\ t \in threads
    /\ t.target = "handle_player_action_logic"
    /\ t \notin threads'

\* C37: outside combat, handle_player_action_logic rejects an action of a player
\* other than current_turn_player without changing the conversation history or the
\* turn pointer; after an action of the current player is processed with a response
\* of the oracle the turn pointer is the next player of turn_order, cyclically; when
\* the oracle returns no response the turn pointer is unchanged.
C37_TurnPassing ==
    [][\A t \in threads :
          LET cur == GAME_STATE.current_turn_player
              answered == Len(GAME_STATE'.conversation_history)
                              > Len(GAME_STATE.conversation_history)
          IN PlayerActionEnds(t) =>
               /\ (t.at = "start" /\ cur # None /\ cur # t.player_name) =>
                      GAME_STATE' = GAME_STATE
               /\ (t.at = "oracle" /\ answered /\ t.player_name = cur) =>
                      /\ IndexIn(GAME_STATE.turn_order, cur) # 0
                      /\ GAME_STATE'.current_turn_player =
                             NextInOrder(GAME_STATE.turn_order, cur)
               /\ (t.at = "oracle" /\ ~answered) =>
                      GAME_STATE'.current_turn_player = cur]_vars

\* the same, but for the actions of a current player who is no longer in turn_order
C37_ExceptLeftOrder ==
    [][\A t \in threads :
          LET cur == GAME_STATE.current_turn_player
              answered == Len(GAME_STATE'.conversation_history)
                              > Len(GAME_STATE.conversation_history)
          IN PlayerActionEnds(t) =>
               /\ (t.at = "start" /\ cur # None /\ cur # t.player_name) =>
                      GAME_STATE' = GAME_STATE
               /\ (t.at = "oracle" /\ answered /\ t.player_name = cur
                     /\ IndexIn(GAME_STATE.turn_order, cur) # 0) =>
                      GAME_STATE'.current_turn_player =
                          NextInOrder(GAME_STATE.turn_order, cur)
               /\ (t.at = "oracle" /\ ~answered) =>
                      GAME_STATE'.current_turn_player = cur]_vars

\* C38: an action is processed under the player name p only if the connection that
\* sent the event joined the game as p: a task of a player_action or combat_action
\* event that has passed the turn check under the name another connection holds
\* carries the name under which its own connection joined.
C38_ActionUnderOwnName ==
    \A t \in threads :
        (/\ t.at = "oracle"
         /\ t.target \in {"handle_player_action_logic", "handle_combat_action_logic"}
         /\ \E sid \in Sids \ {t.sid} : PLAYERS_SID_MAP[sid] = t.player_name) =>
            t.player_name = t.joined_as

(***************************************************************************)
(* SpecJoin: join_game handlers of several connections running at once     *)
(* (async_mode='threading', server.py line 94).  The check of MAX_PLAYERS  *)
(* (line 503) and the add (line 508) are separate steps of a handler; the  *)
(* events carry no player_name, so each connection joins under its default *)
(* name.                                                                   *)
(***************************************************************************)
JoinInFlight(sid) == \E t \in threads : t.target = "handle_join_game" /\ t.sid = sid

\* handle_join_game, lines 498-505: the check of MAX_PLAYERS
JoinCheck(sid) ==
    /\ ~JoinInFlight(sid)
    /\ IF Cardinality(GAME_STATE.connected_players) >= MAX_PLAYERS
       THEN /\ last' = [op |-> "join_game", player |-> DefaultName(sid), rejected |-> TRUE,
                        before |-> GAME_STATE]
            /\ UNCHANGED threads
       ELSE /\ threads' = threads \cup {[target |-> "handle_join_game", sid |-> sid,
                                         joined_as |-> PLAYERS_SID_MAP[sid],
                                         player_name |-> DefaultName(sid), at |-> "checked"]}
            /\ UNCHANGED last
    /\ UNCHANGED <<session, GAME_STATE, PLAYERS_SID_MAP>>

\* handle_join_game, lines 507-524
JoinAdd(t) ==
    /\ t.target = "handle_join_game"
    /\ t.at = "checked"
    /\ LET j == join_game_add(GAME_STATE, PLAYERS_SID_MAP, t.sid, t.player_name)
       IN /\ GAME_STATE' = j.gs
          /\ PLAYERS_SID_MAP' = j.map
    /\ threads' = threads \ {t}
    /\ last' = [op |-> "join_game", player |-> t.player_name, rejected |-> FALSE,
                before |-> GAME_STATE]
    /\ UNCHANGED session

\* handle_disconnect of a connection that has no join_game in flight
JoinDisconnect(sid) ==
    /\ ~JoinInFlight(sid)
    /\ sid \in GAME_STATE.connected_players
    /\ LET d == disconnect(GAME_STATE, PLAYERS_SID_MAP, sid)
       IN /\ GAME_STATE' = d.gs
          /\ PLAYERS_SID_MAP' = d.map
    /\ last' = [op |-> "disconnect", player |-> None, rejected |-> FALSE,
                before |-> GAME_STATE]
    /\ UNCHANGED <<session, threads>>

NextJoin ==
    \/ \E sid \in Sids : JoinCheck(sid)
    \/ \E t \in threads : JoinAdd(t)
    \/ \E sid \in Sids : JoinDisconnect(sid)

SpecJoin == InitLobby /\ [][NextJoin]_vars

\* C39: the number of connected players never exceeds MAX_PLAYERS after any
\* interleaving of join_game and disconnect events, join_game events handled at the
\* same time included, and a rejected join changes neither connected_players nor
\* turn_order nor current_turn_player.
C39_AtMostMaxPlayers ==
    /\ Cardinality(GAME_STATE.connected_players) <= MAX_PLAYERS
    /\ (last.op = "join_game" /\ last.rejected /\ threads = {}) =>
           /\ GAME_STATE.connected_players = last.before.connected_players
           /\ GAME_STATE.turn_order = last.before.turn_order
           /\ GAME_STATE.current_turn_player = last.before.current_turn_player

(***************************************************************************)
(* SpecServerCombat: server.py, the combat handlers.  Alice (s1) and Bob   *)
(* (s2) have joined; an encounter triggers start_combat_session, and the   *)
(* combat_action events run handle_combat_action_logic in background       *)
(* tasks.  GAME_STATE["connected_players"] is a set (line 118, written by  *)
(* add and remove only), so the .values() of lines 1885 and 1908 raises    *)
(* AttributeError, which the handlers' except clauses catch.               *)
(***************************************************************************)
ServerCombatDocs ==
    {Doc(<<SessionCreature("Alice", "alive"), SessionCreature("Goblin", "alive")>>,
         <<1>>, <<>>, <<>>),
     Doc(<<SessionCreature("Goblin", "alive"), SessionCreature("Bob", "alive"),
           SessionCreature("Alice", "alive")>>, <<1>>, <<>>, <<>>)}

ServerCallerNames == PlayerNames \cup {"Goblin"}

InitServerCombat ==
    /\ encounter_data = NoDoc
    /\ store \in ServerCombatDocs \cup {NoDoc}
    /\ current_turn_character = None
    /\ is_active = FALSE
    /\ conversation_history = <<>>
    /\ party_tracker_data = [activeCombatEncounter |-> "E1", lastCompletedEncounter |-> ""]
    /\ pc = "idle"
    /\ call = NoCall
    /\ last = NoResult
    /\ turns = 0
    /\ request = NoRequest
    /\ ext_writes = 0
    /\ visited = <<>>
    /\ archive = <<>>
    /\ LET j1 == join_game(InitialGameState, [sid \in Sids |-> None], "s1", "Alice")
           j2 == join_game(j1.gs, j1.map, "s2", "Bob")
       IN /\ GAME_STATE = j2.gs
          /\ PLAYERS_SID_MAP = j2.map
    /\ threads = {}

\* start_combat_session, called from handle_player_action_logic (lines 810-815) when
\* no combat is on; located: whether location_manager finds the location; files: the
\* creature records that load
StartCombatSession(located, files) ==
    /\ ~GAME_STATE.is_in_combat
    /\ LET c == Construct(store # NoDoc, store, files)
       IN IF ~located \/ ~c.is_active
          THEN UNCHANGED <<encounter_data, store, current_turn_character, is_active,
                           conversation_history, GAME_STATE>>
          ELSE \* lines 1883-1884, then AttributeError at 1885, caught at 1899
               /\ encounter_data' = c.encounter_data
               /\ store' = c.store
               /\ current_turn_character' = c.current_turn_character
               /\ is_active' = c.is_active
               /\ conversation_history' = c.conversation_history
               /\ GAME_STATE' = [GAME_STATE EXCEPT !.active_combat = CombatServiceObject,
                                                   !.is_in_combat = TRUE]
    /\ last' = [op |-> "start_combat_session", value |-> FALSE]
    /\ UNCHANGED <<party_tracker_data, pc, call, turns, request, ext_writes, visited,
                   archive, PLAYERS_SID_MAP, threads>>

\* on_combat_action; the action text is not blank
CombatActionEvent(sid, player_name) ==
    /\ GAME_STATE.is_in_combat
    /\ GAME_STATE.active_combat # None
    /\ sid \in GAME_STATE.connected_players
    /\ Cardinality(threads) < MaxTasks
    /\ threads' = threads \cup {[target |-> "handle_combat_action_logic", sid |-> sid,
                                 joined_as |-> PLAYERS_SID_MAP[sid],
                                 player_name |-> player_name, at |-> "start"]}
    /\ UNCHANGED <<session, last, GAME_STATE, PLAYERS_SID_MAP>>

\* handle_combat_action_logic returning before it changes anything: no combat, or
\* the error of process_player_turn for an inactive session or another's turn
CombatActionRefused(t) ==
    /\ t.target = "handle_combat_action_logic"
    /\ \/ ~GAME_STATE.is_in_combat
       \/ GAME_STATE.active_combat = None
       \/ ~is_active
       \/ t.player_name # current_turn_character
    /\ threads' = threads \ {t}
    /\ last' = [op |-> "combat_action", kind |-> "refused", player |-> t.player_name]
    /\ UNCHANGED <<session, GAME_STATE, PLAYERS_SID_MAP>>

\* handle_combat_action_logic with the whole of process_player_turn
HandleCombatAction(t) ==
    /\ t.target = "handle_combat_action_logic"
    /\ GAME_STATE.is_in_combat
    /\ GAME_STATE.active_combat # None
    /\ is_active
    /\ t.player_name = current_turn_character
    /\ store # NoDoc
    /\ turns < MaxTurns
    /\ turns' = turns + 1
    /\ threads' = threads \ {t}
    /\ \E synced \in SyncOutcomes(store, ext_writes < MaxExternalWrites) :
         \E gen \in GeneratedRolls(RoundOf(synced)), outcomes \in TaskOutcomes :
           LET pr == get_prerolls_for_round(synced, RoundOf(synced), gen)
               st == IF pr.saved THEN pr.doc ELSE synced
               hist == Append(clean_old_dm_notes(conversation_history), PromptEntry)
               v == ValidatorRun(NewRequest(hist), hist, outcomes)
           IN /\ ext_writes' = IF synced = store THEN ext_writes ELSE ext_writes + 1
              /\ IF v.request.status = "failed"
                 THEN \* {"error": "Failed to get AI response"}, lines 1785-1788
                      /\ encounter_data' = pr.doc
                      /\ store' = st
                      /\ conversation_history' = v.history
                      /\ last' = [op |-> "combat_action", kind |-> "error",
                                  player |-> t.player_name]
                      /\ UNCHANGED <<current_turn_character, is_active, party_tracker_data,
                                     archive, GAME_STATE>>
                 ELSE \E r \in RoundResponsesFor(pr.doc) :
                         LET p == process_ai_response(pr.doc, st, r)
                             adv == advance_turn(p.mem, current_turn_character)
                             ended == check_combat_ended(adv.doc.creatures)
                         IN /\ encounter_data' = adv.doc
                            /\ store' = p.store
                            /\ current_turn_character' = adv.current
                            /\ conversation_history' = v.history
                            /\ is_active' = ~ended
                            /\ party_tracker_data' =
                                   IF ended THEN end_combat(party_tracker_data)
                                   ELSE party_tracker_data
                            /\ archive' = IF ended
                                          THEN archive \o end_combat_calls(is_active)
                                          ELSE archive
                            \* lines 1794-1804 when the combat has ended; else line
                            \* 1807: is_player_turn raises, caught at 1811, and line
                            \* 1809 is not reached
                            /\ GAME_STATE' =
                                   IF ended
                                   THEN [GAME_STATE EXCEPT !.is_in_combat = FALSE,
                                                           !.active_combat = None]
                                   ELSE GAME_STATE
                            /\ last' = [op |-> "combat_action", kind |-> "state",
                                        player |-> t.player_name]
    /\ UNCHANGED <<pc, call, request, visited, PLAYERS_SID_MAP>>

NextServerCombat ==
    \/ \E located \in BOOLEAN, files \in SUBSET ServerCallerNames :
          StartCombatSession(located, files)
    \/ \E sid \in LobbySids, n \in ServerCallerNames : CombatActionEvent(sid, n)
    \/ \E t \in threads : CombatActionRefused(t)
    \/ \E t \in threads : HandleCombatAction(t)

SpecServerCombat == InitServerCombat /\ [][NextServerCombat]_vars

CurrentIsNonPlayer ==
    /\ encounter_data # NoDoc
    /\ IndexOfName(encounter_data.creatures, current_turn_character) # 0
    /\ CreatureNamed(encounter_data.creatures, current_turn_character).type # "player"

\* C34: combat never stalls on a non-player creature: whenever
\* handle_combat_action_logic has completed a player's combat action and the
\* resulting current turn belongs to a non-player creature while combat is still
\* active, process_ai_combat_turns is scheduled.
C34_AiTurnsScheduled ==
    (/\ last.op = "combat_action"
     /\ last.kind = "state"
     /\ GAME_STATE.is_in_combat
     /\ is_active
     /\ CurrentIsNonPlayer) =>
        \E t \in threads : t.target = "process_ai_combat_turns"

\* C35: start_combat_session is all-or-nothing with respect to the combat flags: when
\* it has returned False, is_in_combat is False and active_combat is None; when it has
\* returned True, is_in_combat is True and active_combat is a session with is_active
\* true.
C35_StartAllOrNothing ==
    last.op = "start_combat_session" =>
        IF last.value
        THEN GAME_STATE.is_in_combat /\ GAME_STATE.active_combat # None /\ is_active
        ELSE ~GAME_STATE.is_in_combat /\ GAME_STATE.active_combat = None

====
